---- MODULE Spec2Model ----
(***************************************************************************)
(* Model of xfix, the X.com bookmark enricher of clipjot:                  *)
(*   src/xfix/state.py    StateManager (cursor, retries, failed, backoff)  *)
(*   src/xfix/fetcher.py  fetch_tweet (three strategies) and RateLimiter   *)
(*   src/xfix/xfix.py     main, main_loop, process_bookmark                *)
(*                                                                         *)
(* Delays are floats in the source.  The model keeps every delay in        *)
(* half-seconds, so that base_delay = (min_delay + max_delay) / 2 is the   *)
(* integer min_delay + max_delay and every product with a Fibonacci        *)
(* multiplier is exact.  Timestamps (last_attempt, failed_at,              *)
(* last_updated) are left out: no operation reads them.                    *)
(***************************************************************************)
EXTENDS Integers, Sequences, FiniteSets, TLC

VARIABLES
    config,              \* Config: fetch_min_delay, fetch_max_delay, fetch_max_backoff (seconds)
    state,               \* StateManager.state (in memory)
    file,                \* the state file: NoFile or the saved JSON document
    rl,                  \* RateLimiter._backoff_delay, ._fibonacci_index
    pc,                  \* position of the single thread of control
    cursor,              \* main_loop's local cursor
    batch,               \* bookmarks of the current batch not yet started
    bookmark,            \* the bookmark process_bookmark is working on
    result,              \* fetch_tweet's local result: what the latest strategy returned
    shutdown_requested,  \* the global shutdown flag
    dry_run,             \* the --dry-run argument of the running process
    delivered,           \* number of bookmarks the sync calls have delivered so far (bounded)
    runs,                \* number of process starts so far (bounded)
    calls,               \* log: the strategies the current fetch_tweet has called, in order
    waited,              \* log: the delay the current item's RateLimiter.wait used, and its origin
    last,                \* log: the latest StateManager / RateLimiter call and what it returned
    streak,              \* log: RateLimiter.record_error calls since the last record_success
    errs,                \* log, per URL: consecutive record_error calls since it had no retry record
    cleared,             \* log: the backoff delay the latest RateLimiter.record_success cleared
    target,              \* fetch_tweet called directly: what its url argument yields to the two regexes
    plan,                \* fetch_tweet called directly: the answer each endpoint gives to a request
    requests,            \* log: the strategies of the current fetch_tweet that sent a request
    poll,                \* log: the cursor the latest sync call was given, the one it returned, whether it failed
    payload,             \* the fields the pending client.edit_bookmark call carries
    exit_code,           \* how the latest process ended: "0", "1", or "none" (running, or killed)
    enrichment,          \* what the enrichment call under way answers
    tmp,                 \* StateManager.save under way: its temporary file
    synced,              \* get_x_bookmarks_needing_enrichment called directly: the sync response
    response_text,       \* parse_response called directly: the model's response
    parsed               \* parse_response called directly: the (title, summary) returned

vars == <<config, state, file, rl, pc, cursor, batch, bookmark, result,
          shutdown_requested, dry_run, delivered, runs, calls, waited, last, streak, errs, cleared,
          target, plan, requests, poll, payload, exit_code, enrichment, tmp, synced,
          response_text, parsed>>

None == "None"
\* the state file: absent, or holding one JSON document
NoFile == <<>>
FileWith(doc) == <<doc>>
NoBookmark == [id |-> 0, url |-> None, title |-> None, comment |-> None]

\* ------------------------------------------------------------------ bounds
MaxAttemptsArg == 3   \* largest max_attempts the store is called with directly
MaxFailed == 2        \* longest permanent-failure list built by direct calls
MaxStoreIndex == 2    \* largest stored fibonacci_index built by direct calls
MaxErrors == 13       \* longest streak of RateLimiter.record_error calls
MaxItems == 3         \* bookmarks the remote store delivers over all sync calls
MaxRuns == 2          \* process starts
MaxSavedFailed == 1   \* longest permanent-failure list built between saves
MaxSynced == 2        \* longest sync response the filter is applied to

\* ------------------------------------------------------------------ values
\* URLs that match X_URL_PATTERNS, and one that does not
URLS == {"u1", "u2"}
OtherUrl == "n1"
BookmarkId(url) == IF url = "u1" THEN 101 ELSE 102
Cursors == {"c1", "c2"}

\* The remote store's bookmarks.  title: None, "18h" (is_placeholder_title holds)
\* or "A genuine title"; comment: None or "present".
Bookmark(id, url, title, comment) ==
    [id |-> id, url |-> url, title |-> title, comment |-> comment]
RemoteItems ==
    {Bookmark(101, "u1", None, None),
     Bookmark(102, "u2", "18h", "present"),
     Bookmark(103, "u2", "A genuine title", "present"),
     Bookmark(104, OtherUrl, None, None)}

\* Config values (seconds): the defaults of load_config, a ceiling the Fibonacci
\* sequence reaches, a half-second base delay, and a ceiling below the base delay
Config(lo, hi, cap) == [fetch_min_delay |-> lo, fetch_max_delay |-> hi, fetch_max_backoff |-> cap]
DefaultConfig == Config(1, 3, 300)
Configs == {DefaultConfig, Config(1, 3, 10), Config(0, 1, 1), Config(2, 2, 1)}

\* ErrorType values of the fetcher, and the kinds the state store is given
FetchErrors == {"network", "rate_limit", "not_found", "parse"}
DEFAULT_MAX_ATTEMPTS == 3

Min(a, b) == IF a <= b THEN a ELSE b

\* ------------------------------------------------------------------ state.py
FIBONACCI == <<1, 1, 2, 3, 5, 8, 13, 21, 34, 55, 89, 144>>

BackoffState(delay, idx) == [current_delay |-> delay, fibonacci_index |-> idx]

\* State(): the dataclass defaults
EmptyMap == [u \in {} |-> None]
EmptyState ==
    [cursor |-> None, retries |-> EmptyMap, failed |-> <<>>, backoff |-> BackoffState(0, 0)]

RetryInfo(attempts, error_type, bookmark_id) ==
    [attempts |-> attempts, error_type |-> error_type, bookmark_id |-> bookmark_id]

FailedBookmark(url, bookmark_id, attempts, last_error) ==
    [url |-> url, bookmark_id |-> bookmark_id, attempts |-> attempts, last_error |-> last_error]

\* del d[k]
Without(d, k) == [x \in DOMAIN d \ {k} |-> d[x]]
\* d[k] = v
With(d, k, v) == [x \in DOMAIN d \cup {k} |-> IF x = k THEN v ELSE d[x]]

\* _mark_failed leaving the retry record in place
MarkFailed_KeepsRetry(s, url, bookmark_id, attempts, error_type) ==
    [s EXCEPT !.failed = Append(s.failed, FailedBookmark(url, bookmark_id, attempts, error_type))]

\* StateManager._mark_failed

MarkFailed(s, url, bookmark_id, attempts, error_type) ==
    LET r == IF url \in DOMAIN s.retries THEN Without(s.retries, url) ELSE s.retries
    IN [s EXCEPT !.retries = r,
                 !.failed = Append(s.failed, FailedBookmark(url, bookmark_id, attempts, error_type))]

\* record_error counting a not_found as one more attempt of the retry record
RecordError_NotFoundCounts(s, url, bookmark_id, error_type, max_attempts) ==
    LET r == IF url \in DOMAIN s.retries
             THEN [s.retries EXCEPT ![url].attempts = @ + 1,
                                    ![url].error_type = error_type]
             ELSE With(s.retries, url, RetryInfo(1, error_type, bookmark_id))
        s1 == [s EXCEPT !.retries = r]
    IN IF error_type = "not_found"
       THEN [state |-> MarkFailed(s1, url, bookmark_id, r[url].attempts, error_type),
             ret |-> FALSE]
       ELSE IF r[url].attempts >= max_attempts
       THEN [state |-> MarkFailed(s1, url, bookmark_id, max_attempts, error_type),
             ret |-> FALSE]
       ELSE [state |-> s1, ret |-> TRUE]

\* record_error promoting only on not_found, never at max_attempts
RecordError_NeverPromotes(s, url, bookmark_id, error_type, max_attempts) ==
    IF error_type = "not_found"
    THEN [state |-> MarkFailed(s, url, bookmark_id, 1, error_type), ret |-> FALSE]
    ELSE LET r == IF url \in DOMAIN s.retries
                  THEN [s.retries EXCEPT ![url].attempts = @ + 1,
                                         ![url].error_type = error_type]
                  ELSE With(s.retries, url, RetryInfo(1, error_type, bookmark_id))
         IN [state |-> [s EXCEPT !.retries = r], ret |-> TRUE]

\* record_error promoting only past max_attempts (> for >=)
RecordError_OffByOne(s, url, bookmark_id, error_type, max_attempts) ==
    IF error_type = "not_found"
    THEN [state |-> MarkFailed(s, url, bookmark_id, 1, error_type), ret |-> FALSE]
    ELSE LET r == IF url \in DOMAIN s.retries
                  THEN [s.retries EXCEPT ![url].attempts = @ + 1,
                                         ![url].error_type = error_type]
                  ELSE With(s.retries, url, RetryInfo(1, error_type, bookmark_id))
             s1 == [s EXCEPT !.retries = r]
         IN IF r[url].attempts > max_attempts
            THEN [state |-> MarkFailed(s1, url, bookmark_id, max_attempts, error_type),
                  ret |-> FALSE]
            ELSE [state |-> s1, ret |-> TRUE]

\* StateManager.record_error: the new state and the returned should-retry flag

RecordError(s, url, bookmark_id, error_type, max_attempts) ==
    IF error_type = "not_found"
    THEN [state |-> MarkFailed(s, url, bookmark_id, 1, error_type), ret |-> FALSE]
    ELSE LET r == IF url \in DOMAIN s.retries
                  THEN [s.retries EXCEPT ![url].attempts = @ + 1,
                                         ![url].error_type = error_type]
                  ELSE With(s.retries, url, RetryInfo(1, error_type, bookmark_id))
             s1 == [s EXCEPT !.retries = r]
         IN IF r[url].attempts >= max_attempts
            THEN [state |-> MarkFailed(s1, url, bookmark_id, max_attempts, error_type),
                  ret |-> FALSE]
            ELSE [state |-> s1, ret |-> TRUE]

\* record_success clearing the whole retries map
RecordSuccess_ClearsAll(s, url) ==
    [s EXCEPT !.retries = EmptyMap, !.backoff = BackoffState(0, 0)]

\* StateManager.record_success

RecordSuccess(s, url) ==
    LET r == IF url \in DOMAIN s.retries THEN Without(s.retries, url) ELSE s.retries
    IN [s EXCEPT !.retries = r, !.backoff = BackoffState(0, 0)]

\* is_failed looking the URL up in retries instead of the failed list
IsFailed_ChecksRetries(s, url) == url \in DOMAIN s.retries

\* StateManager.is_failed

IsFailed(s, url) == \E i \in 1..Len(s.failed) : s.failed[i].url = url

\* StateManager.get_retry_count
GetRetryCount(s, url) == IF url \in DOMAIN s.retries THEN s.retries[url].attempts ELSE 0

\* StateManager.base_delay and .max_backoff as main() constructs them (half-seconds)
StoreBaseDelay(cfg) == cfg.fetch_min_delay + cfg.fetch_max_delay
StoreMaxBackoff(cfg) == 2 * cfg.fetch_max_backoff

\* increment_backoff starting the table again past its end
IncrementBackoff_RestartsTable(s, cfg) ==
    LET idx == s.backoff.fibonacci_index
        multiplier == IF idx < Len(FIBONACCI) THEN FIBONACCI[idx + 1]
                      ELSE FIBONACCI[1]
        delay == Min(StoreBaseDelay(cfg) * multiplier, StoreMaxBackoff(cfg))
    IN [state |-> [s EXCEPT !.backoff = BackoffState(delay, idx + 1)], ret |-> delay]

\* StateManager.increment_backoff: the new state and the returned delay

IncrementBackoff(s, cfg) ==
    LET idx == s.backoff.fibonacci_index
        multiplier == IF idx < Len(FIBONACCI) THEN FIBONACCI[idx + 1]
                      ELSE FIBONACCI[Len(FIBONACCI)]
        delay == Min(StoreBaseDelay(cfg) * multiplier, StoreMaxBackoff(cfg))
    IN [state |-> [s EXCEPT !.backoff = BackoffState(delay, idx + 1)], ret |-> delay]

\* StateManager.reset_backoff
ResetBackoff(s) == [s EXCEPT !.backoff = BackoffState(0, 0)]

\* StateManager.set_cursor / clear_cursor (set_cursor also saves: see the actions)
SetCursor(s, c) == [s EXCEPT !.cursor = c]
ClearCursor(s) == [s EXCEPT !.cursor = None]

\* StateManager.save: the JSON document written (temp file, then rename)
SaveDocument(s) ==
    [cursor |-> s.cursor,
     retries |-> [u \in DOMAIN s.retries |->
                    [attempts |-> s.retries[u].attempts,
                     error_type |-> s.retries[u].error_type,
                     bookmark_id |-> s.retries[u].bookmark_id]],
     failed |-> [i \in 1..Len(s.failed) |->
                    [url |-> s.failed[i].url,
                     bookmark_id |-> s.failed[i].bookmark_id,
                     attempts |-> s.failed[i].attempts,
                     last_error |-> s.failed[i].last_error]],
     backoff |-> [current_delay |-> s.backoff.current_delay,
                  fibonacci_index |-> s.backoff.fibonacci_index]]

\* StateManager.load that leaves the backoff of the instance as it is
Load_DropsBackoff(s, f) ==
    IF f = NoFile THEN s
    ELSE LET data == f[1]
         IN [cursor |-> data.cursor,
             retries |-> [u \in DOMAIN s.retries \cup DOMAIN data.retries |->
                            IF u \in DOMAIN data.retries
                            THEN RetryInfo(data.retries[u].attempts,
                                           data.retries[u].error_type,
                                           data.retries[u].bookmark_id)
                            ELSE s.retries[u]],
             failed |-> s.failed \o [i \in 1..Len(data.failed) |->
                            FailedBookmark(data.failed[i].url, data.failed[i].bookmark_id,
                                           data.failed[i].attempts, data.failed[i].last_error)],
             backoff |-> s.backoff]

\* StateManager.load into the instance's present state s: a missing file changes
\* nothing; retries are stored over the present ones, failed records are appended
Load(s, f) ==
    IF f = NoFile THEN s
    ELSE LET data == f[1]
         IN [cursor |-> data.cursor,
             retries |-> [u \in DOMAIN s.retries \cup DOMAIN data.retries |->
                            IF u \in DOMAIN data.retries
                            THEN RetryInfo(data.retries[u].attempts,
                                           data.retries[u].error_type,
                                           data.retries[u].bookmark_id)
                            ELSE s.retries[u]],
             failed |-> s.failed \o [i \in 1..Len(data.failed) |->
                            FailedBookmark(data.failed[i].url, data.failed[i].bookmark_id,
                                           data.failed[i].attempts, data.failed[i].last_error)],
             backoff |-> BackoffState(data.backoff.current_delay,
                                      data.backoff.fibonacci_index)]

\* State files that are not a saved document: text that is not JSON, a JSON
\* document whose retry record lacks a key, and a JSON list.
NotJson == <<[unreadable |-> "not_json"]>>
MissingKey == <<[unreadable |-> "missing_key", cursor |-> "c2"]>>
NotAnObject == <<[unreadable |-> "not_an_object"]>>
CorruptFiles == {NotJson, MissingKey, NotAnObject}
IsCorrupt(f) == f # NoFile /\ "unreadable" \in DOMAIN f[1]

\* StateManager.load, with how it ends.  json.load raising JSONDecodeError leaves
\* the state as it was and raises ValueError; a KeyError in the retries loop comes
\* after the cursor was assigned and raises ValueError too; data.get on a list
\* raises AttributeError, which load does not catch.
LoadAttempt(s, f) ==
    IF ~IsCorrupt(f) THEN [state |-> Load(s, f), raised |-> None]
    ELSE IF f = NotJson THEN [state |-> s, raised |-> "ValueError"]
    ELSE IF f = MissingKey THEN [state |-> SetCursor(s, f[1].cursor), raised |-> "ValueError"]
    ELSE [state |-> s, raised |-> "AttributeError"]

\* ------------------------------------------------------------------ enricher.py
\* What a call of Enricher.enrich can come to: the client call times out or raises
\* another error, the response parses to neither title nor summary, or it parses
\* to a title, a summary or both.
EnrichAnswers == {"timeout", "error", "unparsed", "title", "summary", "both"}

\* Enricher.enrich: success unless an exception was caught or nothing was parsed
EnrichResult(answer) ==
    [success |-> answer \in {"title", "summary", "both"},
     has_title |-> answer \in {"title", "both"},
     has_summary |-> answer \in {"summary", "both"}]

\* ------------------------------------------------------------------ fetcher.py: RateLimiter
\* RateLimiter.__init__
NewRateLimiter == [backoff_delay |-> 0, fibonacci_index |-> 0]

\* RateLimiter.base_delay (half-seconds)
BaseDelay(cfg) == cfg.fetch_min_delay + cfg.fetch_max_delay
MaxBackoff(cfg) == 2 * cfg.fetch_max_backoff

\* RateLimiter.get_normal_delay: the values random.uniform(min_delay, max_delay) can
\* return, on the half-second grid
NormalDelays(cfg) == (2 * cfg.fetch_min_delay)..(2 * cfg.fetch_max_delay)

\* RateLimiter.get_current_delay: the delays it can return, with their origin

CurrentDelays(r, cfg) ==
    IF r.backoff_delay > 0
    THEN {[source |-> "backoff", delay |-> r.backoff_delay]}
    ELSE {[source |-> "normal", delay |-> d] : d \in NormalDelays(cfg)}

\* record_success resetting the index but not the delay
RLRecordSuccess_KeepsDelay(r) == [r EXCEPT !.fibonacci_index = 0]

\* RateLimiter.record_success

RLRecordSuccess(r) == [r EXCEPT !.backoff_delay = 0, !.fibonacci_index = 0]

\* record_error incrementing the index before it reads the multiplier
RLRecordError_IncrementsFirst(r, cfg) ==
    LET fibonacci == <<1, 1, 2, 3, 5, 8, 13, 21, 34, 55, 89, 144>>
        idx == Min(r.fibonacci_index + 1, Len(fibonacci) - 1)
        multiplier == fibonacci[idx + 1]
        delay == Min(BaseDelay(cfg) * multiplier, MaxBackoff(cfg))
    IN [rl |-> [r EXCEPT !.backoff_delay = delay, !.fibonacci_index = @ + 1],
        ret |-> delay]

\* record_error without the max_backoff ceiling
RLRecordError_NoCap(r, cfg) ==
    LET fibonacci == <<1, 1, 2, 3, 5, 8, 13, 21, 34, 55, 89, 144>>
        idx == Min(r.fibonacci_index, Len(fibonacci) - 1)
        multiplier == fibonacci[idx + 1]
        delay == BaseDelay(cfg) * multiplier
    IN [rl |-> [r EXCEPT !.backoff_delay = delay, !.fibonacci_index = @ + 1],
        ret |-> delay]

\* RateLimiter.record_error: the new limiter and the returned delay

RLRecordError(r, cfg) ==
    LET fibonacci == <<1, 1, 2, 3, 5, 8, 13, 21, 34, 55, 89, 144>>
        idx == Min(r.fibonacci_index, Len(fibonacci) - 1)
        multiplier == fibonacci[idx + 1]
        delay == Min(BaseDelay(cfg) * multiplier, MaxBackoff(cfg))
    IN [rl |-> [r EXCEPT !.backoff_delay = delay, !.fibonacci_index = @ + 1],
        ret |-> delay]

\* a URL as extract_author and extract_tweet_id see it, and one that both match
UrlShape(author, id) == [author |-> author, id |-> id]
TweetUrl == UrlShape(TRUE, TRUE)
NoPlan == <<>>
fetchVars == <<target, plan, requests>>
FetchIdle == target = TweetUrl /\ plan = NoPlan /\ requests = <<>>

NoPoll == [asked |-> None, answered |-> None, failed |-> FALSE]
NoPayload == [title |-> FALSE, comment |-> FALSE]
NoTemp == <<>>
\* an optional string: None, or a string
Missing == [present |-> FALSE, text |-> <<>>]
Found(text) == [present |-> TRUE, text |-> text]
NoResponse == [title |-> Missing, summary |-> Missing]
NoParse == [title |-> Missing, summary |-> Missing]
parseVars == <<response_text, parsed>>
orchLogs == <<poll, payload, exit_code, enrichment>>
OrchLogsIdle ==
    /\ poll = NoPoll /\ payload = NoPayload /\ exit_code = "none" /\ enrichment = "none"
    /\ tmp = NoTemp
    /\ response_text = NoResponse /\ parsed = NoParse
NoneSynced == synced = <<>>

NoCall == [op |-> "none", url |-> None, kind |-> None, max |-> 0, ret |-> None, pre |-> None]
NoWait == [source |-> "none", delay |-> 0]
Call(op, url, kind, max, ret, pre) ==
    [op |-> op, url |-> url, kind |-> kind, max |-> max, ret |-> ret, pre |-> pre]


\* errs[u].n counts the record_error calls for u, of a kind other than not_found
\* and all with max_attempts = errs[u].max, since u last had no retry record;
\* n = 0 when the calls since then do not have that shape
NoErrs == [u \in URLS |-> [n |-> 0, max |-> 0]]

ErrsAfterError(e, s, u, k, m) ==
    [e EXCEPT ![u] =
        IF k = "not_found" THEN [n |-> 0, max |-> 0]
        ELSE IF u \notin DOMAIN s.retries THEN [n |-> 1, max |-> m]
        ELSE IF e[u].n > 0 /\ e[u].max = m THEN [n |-> e[u].n + 1, max |-> m]
        ELSE [n |-> 0, max |-> 0]]

ErrsAfterSuccess(e, u) == [e EXCEPT ![u] = [n |-> 0, max |-> 0]]


\* ------------------------------------------------------------------ api_client.py
\* is_x_url: the URL matches one of X_URL_PATTERNS
IsXUrl(url) == url \in URLS

\* is_placeholder_title
\* The titles of the model, each with what is_placeholder_title reads off it: the
\* length of title.strip() and the pattern it matches.  "time": digits and one of
\* h d m w s; "date": a month name and a day; "timestamp": H:MM AM/PM and a middle
\* dot, whatever follows; "url": starts with http:// or https://; "text": none of these.
Titles ==
    {None, "", "   ", "Hello", "18h", "123456h", "Jan 22", "3:01 PM . Jan 23, 2026",
     "3:01 PM . what a day", "https://x.com/u/status/1", "Hello!", "A genuine title"}

TitleLength(title) ==
    CASE title \in {"", "   "} -> 0
      [] title = "18h" -> 3
      [] title = "Hello" -> 5
      [] title \in {"Jan 22", "Hello!"} -> 6
      [] title = "123456h" -> 7
      [] title = "A genuine title" -> 15
      [] title = "3:01 PM . what a day" -> 20
      [] title = "3:01 PM . Jan 23, 2026" -> 22
      [] title = "https://x.com/u/status/1" -> 24

TitlePattern(title) ==
    CASE title \in {"18h", "123456h"} -> "time"
      [] title = "Jan 22" -> "date"
      [] title \in {"3:01 PM . Jan 23, 2026", "3:01 PM . what a day"} -> "timestamp"
      [] title = "https://x.com/u/status/1" -> "url"
      [] OTHER -> "text"

\* not x, for an optional string
Absent(x) == x = None \/ x = ""

\* is_placeholder_title counting only very short titles
IsPlaceholderTitle_ShortOnly(title) ==
    IF Absent(title) THEN TRUE ELSE TitleLength(title) <= 5

IsPlaceholderTitle(title) ==
    IF Absent(title) THEN TRUE
    ELSE IF TitleLength(title) <= 5 THEN TRUE
    ELSE IF TitlePattern(title) = "time" THEN TRUE
    ELSE IF TitlePattern(title) = "date" THEN TRUE
    ELSE IF TitlePattern(title) = "timestamp" THEN TRUE
    ELSE IF TitlePattern(title) = "url" THEN TRUE
    ELSE FALSE

\* needs_enrichment
NeedsEnrichment(b) ==
    LET needs_title == Absent(b.title) \/ IsPlaceholderTitle(b.title)
        needs_comment == Absent(b.comment)
    IN needs_title \/ needs_comment

\* get_x_bookmarks_needing_enrichment: the filter over a sync response
Matching(bookmarks) == SelectSeq(bookmarks, LAMBDA b : IsXUrl(b.url) /\ NeedsEnrichment(b))

\* the sync responses the remote store can give: up to limit of its bookmarks
SyncResponses(limit) == UNION {[1..n -> RemoteItems] : n \in 0..limit}

\* ------------------------------------------------------------------ fetcher.py: fetch_tweet
\* the three strategies in the order fetch_tweet calls them
STRATEGIES == <<"fxtwitter", "oembed", "html">>
Outcomes == {"ok"} \cup FetchErrors

\* What an endpoint answers to a GET: the request times out, fails with another
\* httpx.HTTPError, or returns a status.  A 200 carries a body: "not_json" (json()
\* raises), "error_code" (JSON whose "code" is not 200 and that has no text),
\* "no_text" (the text field is missing: tweet.text, the <p> of html, the meta
\* tags), "empty_text" (the field is there and empty, or under the 10 characters
\* parse_tweet_from_html asks for), "text" (usable text).
Bodies == {"not_json", "error_code", "no_text", "empty_text", "text"}
Response(kind, status, body) == [kind |-> kind, status |-> status, body |-> body]
Responses ==
    {Response(k, 0, "none") : k \in {"timeout", "http_error"}}
    \cup {Response("http", c, "none") : c \in {404, 429, 403, 500}}
    \cup {Response("http", 200, b) : b \in Bodies}

\* fetch_via_fxtwitter: the classification of the response
ClassifyFxtwitter(r) ==
    IF r.kind \in {"timeout", "http_error"} THEN "network"
    ELSE IF r.status = 404 THEN "not_found"
    ELSE IF r.status \in {429, 403} THEN "rate_limit"
    ELSE IF r.status # 200 THEN "network"
    ELSE IF r.body = "not_json" THEN "parse"
    ELSE IF r.body = "error_code" THEN "not_found"
    ELSE IF r.body \in {"no_text", "empty_text"} THEN "parse"
    ELSE "ok"

\* fetch_via_oembed: the classification of the response
ClassifyOembed(r) ==
    IF r.kind \in {"timeout", "http_error"} THEN "network"
    ELSE IF r.status = 404 THEN "not_found"
    ELSE IF r.status = 429 THEN "rate_limit"
    ELSE IF r.status # 200 THEN "network"
    ELSE IF r.body = "not_json" THEN "parse"
    ELSE IF r.body \in {"error_code", "no_text"} THEN "parse"
    ELSE IF r.body = "empty_text" THEN "parse"
    ELSE "ok"

\* fetch_via_html: the classification of the response
ClassifyHtml(r) ==
    IF r.kind \in {"timeout", "http_error"} THEN "network"
    ELSE IF r.status = 404 THEN "not_found"
    ELSE IF r.status = 429 THEN "rate_limit"
    ELSE IF r.status >= 500 THEN "network"
    ELSE IF r.status # 200 THEN "network"
    ELSE IF r.body = "text" THEN "ok"
    ELSE "parse"

\* One strategy called with a URL, the endpoint answering r if asked: the
\* FetchResult, and whether a request was sent.  Only fetch_via_fxtwitter looks at
\* the URL before it sends the request.
FetchVia(strategy, url, r) ==
    IF strategy = "fxtwitter"
    THEN IF ~url.author \/ ~url.id
         THEN [outcome |-> "parse", sent |-> FALSE]
         ELSE [outcome |-> ClassifyFxtwitter(r), sent |-> TRUE]
    ELSE IF strategy = "oembed"
    THEN [outcome |-> ClassifyOembed(r), sent |-> TRUE]
    ELSE [outcome |-> ClassifyHtml(r), sent |-> TRUE]

\* fetch_tweet returning the first strategy's result, whatever it is
FetchTweetNext_ReturnsFirst(k, outcome) == 0

\* fetch_tweet with every strategy falling through on failure, not_found included
FetchTweetNext_IgnoresNotFound(k, outcome) ==
    IF outcome = "ok" THEN 0
    ELSE IF k < Len(STRATEGIES) THEN k + 1 ELSE 0

\* fetch_tweet after strategy k has answered: the strategy to call next, 0 to return

FetchTweetNext(k, outcome) ==
    IF outcome = "ok" THEN 0
    ELSE IF k < Len(STRATEGIES) /\ outcome = "not_found" THEN 0
    ELSE IF k < Len(STRATEGIES) THEN k + 1
    ELSE 0

\* ------------------------------------------------------------------ xfix.py
\* The configuration the orchestrator runs under: min_delay 1 s, max_delay 2 s
\* (base delay 1.5 s) and a backoff ceiling of 2 s, which the third error of a
\* streak reaches (1.5, 1.5, min(3, 2)).
OrchConfig == Config(1, 2, 2)

otherLogs == <<last, streak, cleared, fetchVars, tmp, synced, parseVars>>
apiLogs == <<errs, otherLogs>>

Running == pc \notin {"down", "stopped"}

\* StateManager.save
Saved(s) == FileWith(SaveDocument(s))

Init ==
    /\ config = OrchConfig
    /\ state = EmptyState
    /\ file = NoFile
    /\ rl = NewRateLimiter
    /\ pc = "down"
    /\ cursor = None
    /\ batch = <<>>
    /\ bookmark = NoBookmark
    /\ result = None
    /\ shutdown_requested = FALSE
    /\ dry_run = FALSE
    /\ delivered = 0
    /\ runs = 0
    /\ calls = <<>>
    /\ waited = NoWait
    /\ last = NoCall /\ streak = 0 /\ errs = NoErrs /\ cleared = 0
    /\ FetchIdle
    /\ OrchLogsIdle
    /\ NoneSynced

\* main(): a process start.  Loads the state file; a ValueError from load is
\* logged and main goes on ("Starting with fresh state"), any other exception
\* ends the process.  Then clears the cursor under --from-start, and enters
\* main_loop, which builds the RateLimiter and reads the cursor.
Start ==
    \E from_start \in BOOLEAN, dry \in BOOLEAN :
        LET loaded == LoadAttempt(EmptyState, file)
            s == IF from_start THEN ClearCursor(loaded.state) ELSE loaded.state
        IN /\ ~Running
           /\ runs < MaxRuns
           /\ runs' = runs + 1
           /\ IF loaded.raised \in {None, "ValueError"}
              THEN /\ state' = s
                   /\ dry_run' = dry
                   /\ cursor' = s.cursor
                   /\ exit_code' = "none"
                   /\ pc' = "loop"
              ELSE /\ state' = EmptyState
                   /\ dry_run' = FALSE
                   /\ cursor' = None
                   /\ exit_code' = "1"
                   /\ pc' = "down"
           /\ shutdown_requested' = FALSE
           /\ rl' = NewRateLimiter
           /\ batch' = <<>> /\ bookmark' = NoBookmark /\ result' = None
           /\ calls' = <<>> /\ waited' = NoWait
           /\ poll' = NoPoll /\ payload' = NoPayload /\ enrichment' = "none"
           /\ UNCHANGED <<config, file, delivered, apiLogs>>

\* main_loop's while loop not reading shutdown_requested
LoopTop_IgnoresShutdown ==
    /\ pc = "loop"
    /\ pc' = "sync"
    /\ poll' = [asked |-> cursor, answered |-> None, failed |-> poll.failed]
    /\ UNCHANGED <<config, state, file, rl, cursor, batch, bookmark, result,
                   shutdown_requested, dry_run, delivered, runs, calls, waited, apiLogs,
                   payload, exit_code, enrichment>>

\* main_loop: while not shutdown_requested
LoopTop ==
    /\ pc = "loop"
    /\ pc' = IF shutdown_requested THEN "final_save" ELSE "sync"
    /\ poll' = IF shutdown_requested THEN poll
               ELSE [asked |-> cursor, answered |-> None, failed |-> poll.failed]
    /\ UNCHANGED <<config, state, file, rl, cursor, batch, bookmark, result,
                   shutdown_requested, dry_run, delivered, runs, calls, waited, apiLogs,
                   payload, exit_code, enrichment>>

\* main(): the final state.save() after main_loop has returned
FinalSave ==
    /\ pc = "final_save"
    /\ file' = Saved(state)
    /\ pc' = "stopped"
    /\ exit_code' = "0"
    /\ UNCHANGED <<config, state, rl, cursor, batch, bookmark, result,
                   shutdown_requested, dry_run, delivered, runs, calls, waited, apiLogs,
                   poll, payload, enrichment>>

\* main_loop: if new_cursor and new_cursor != cursor, only when the cursor was None
CursorMoved_OnlyFirst(cursor_, new_cursor) == new_cursor # None /\ cursor_ = None

\* main_loop: if new_cursor and new_cursor != cursor
CursorMoved(cursor_, new_cursor) == new_cursor # None /\ new_cursor # cursor_

\* main_loop: the long poll answers; the cursor is updated and saved at once, then
\* the batch is empty (continue) or the for loop starts
SyncAnswered ==
    \E response \in SyncResponses(MaxItems - delivered), new_cursor \in Cursors \cup {None} :
        LET bookmarks == Matching(response)
            moved == CursorMoved(cursor, new_cursor)
            s == IF moved THEN SetCursor(state, new_cursor) ELSE state
        IN /\ pc = "sync"
           /\ delivered' = delivered + Len(response)
           /\ cursor' = IF moved THEN new_cursor ELSE cursor
           /\ state' = s
           /\ file' = IF moved THEN Saved(s) ELSE file
           /\ batch' = bookmarks
           /\ pc' = IF bookmarks = <<>> THEN "loop" ELSE "item"
           /\ poll' = [poll EXCEPT !.answered = new_cursor, !.failed = FALSE]
           /\ UNCHANGED <<config, rl, bookmark, result, shutdown_requested, dry_run,
                          runs, calls, waited, apiLogs, payload, exit_code, enrichment>>

\* main_loop's except Exception losing the loop's cursor
SyncFailed_ForgetsCursor ==
    /\ pc = "sync"
    /\ pc' = "sleep"
    /\ cursor' = None
    /\ poll' = [poll EXCEPT !.failed = TRUE]
    /\ UNCHANGED <<config, state, file, rl, batch, bookmark, result,
                   shutdown_requested, dry_run, delivered, runs, calls, waited, apiLogs,
                   payload, exit_code, enrichment>>

\* main_loop: the long poll raises; except Exception logs it and sleeps
SyncFailed ==
    /\ pc = "sync"
    /\ pc' = "sleep"
    /\ poll' = [poll EXCEPT !.failed = TRUE]
    /\ UNCHANGED <<config, state, file, rl, cursor, batch, bookmark, result,
                   shutdown_requested, dry_run, delivered, runs, calls, waited, apiLogs,
                   payload, exit_code, enrichment>>

\* main_loop: asyncio.sleep(10) returns, back to the top of the loop
Slept ==
    /\ pc = "sleep"
    /\ pc' = "loop"
    /\ UNCHANGED <<config, state, file, rl, cursor, batch, bookmark, result,
                   shutdown_requested, dry_run, delivered, runs, calls, waited, apiLogs, orchLogs>>

\* main_loop's for loop taking the bookmarks from the end of the batch
NextItem_TakesLast ==
    /\ pc = "item"
    /\ IF batch = <<>>
       THEN pc' = "loop" /\ UNCHANGED <<batch, bookmark>>
       ELSE IF shutdown_requested
       THEN pc' = "loop" /\ batch' = <<>> /\ UNCHANGED bookmark
       ELSE IF IsFailed(state, batch[Len(batch)].url)
       THEN pc' = "item" /\ batch' = SubSeq(batch, 1, Len(batch) - 1) /\ UNCHANGED bookmark
       ELSE /\ pc' = "wait" /\ batch' = SubSeq(batch, 1, Len(batch) - 1)
            /\ bookmark' = batch[Len(batch)]
    /\ UNCHANGED <<config, state, file, rl, cursor, result, shutdown_requested,
                   dry_run, delivered, runs, calls, waited, apiLogs, orchLogs>>

\* main_loop: for bookmark in bookmarks, up to process_bookmark's first await:
\* the batch is done, or shutdown breaks the loop, or the bookmark is skipped as
\* permanently failed, or process_bookmark goes on to rate_limiter.wait()
NextItem ==
    /\ pc = "item"
    /\ IF batch = <<>>
       THEN pc' = "loop" /\ UNCHANGED <<batch, bookmark>>
       ELSE IF shutdown_requested
       THEN pc' = "loop" /\ batch' = <<>> /\ UNCHANGED bookmark
       ELSE IF IsFailed(state, Head(batch).url)
       THEN pc' = "item" /\ batch' = Tail(batch) /\ UNCHANGED bookmark
       ELSE pc' = "wait" /\ batch' = Tail(batch) /\ bookmark' = Head(batch)
    /\ UNCHANGED <<config, state, file, rl, cursor, result, shutdown_requested,
                   dry_run, delivered, runs, calls, waited, apiLogs, orchLogs>>

\* process_bookmark: await rate_limiter.wait()
Wait ==
    \E w \in CurrentDelays(rl, config) :
        /\ pc = "wait"
        /\ waited' = w
        /\ calls' = <<>>
        /\ pc' = "fetch"
        /\ UNCHANGED <<config, state, file, rl, cursor, batch, bookmark, result,
                       shutdown_requested, dry_run, delivered, runs, apiLogs, orchLogs>>

\* fetch_tweet: the next strategy is called and answers
FetchStrategy ==
    \E outcome \in Outcomes :
        LET k == Len(calls) + 1
        IN /\ pc = "fetch"
           /\ calls' = Append(calls, STRATEGIES[k])
           /\ result' = outcome
           /\ pc' = IF FetchTweetNext(k, outcome) = 0 THEN "fetched" ELSE "fetch"
           /\ UNCHANGED <<config, state, file, rl, cursor, batch, bookmark,
                          shutdown_requested, dry_run, delivered, runs, waited, apiLogs, orchLogs>>

\* process_bookmark advancing the backoff after every failed fetch
TriggersBackoff_AnyError(error_type) == TRUE

\* process_bookmark: if result.error_type in (ErrorType.NETWORK, ErrorType.RATE_LIMIT)
TriggersBackoff(error_type) == error_type \in {"network", "rate_limit"}

\* process_bookmark: if not result.success: record the error, advance the backoff
\* for network and rate_limit, save, return False
FetchFailed ==
    LET out == RecordError(state, bookmark.url, bookmark.id, result, DEFAULT_MAX_ATTEMPTS)
    IN /\ pc = "fetched"
       /\ result # "ok"
       /\ state' = out.state
       /\ errs' = ErrsAfterError(errs, state, bookmark.url, result, DEFAULT_MAX_ATTEMPTS)
       /\ rl' = IF TriggersBackoff(result) THEN RLRecordError(rl, config).rl ELSE rl
       /\ file' = Saved(state')
       /\ pc' = "item"
       /\ bookmark' = NoBookmark /\ result' = None /\ calls' = <<>> /\ waited' = NoWait
       /\ UNCHANGED <<config, cursor, batch, shutdown_requested, dry_run, delivered, runs,
                      otherLogs, orchLogs>>

\* process_bookmark going on to the enrichment without rate_limiter.record_success()
FetchSucceeded_KeepsBackoff ==
    \E answer \in EnrichAnswers :
        /\ pc = "fetched"
        /\ result = "ok"
        /\ pc' = "enrich"
        /\ calls' = <<>>
        /\ enrichment' = answer
        /\ UNCHANGED <<config, state, file, rl, cursor, batch, bookmark, result,
                       shutdown_requested, dry_run, delivered, runs, waited, apiLogs,
                       poll, payload, exit_code>>

\* process_bookmark: the fetch succeeded: rate_limiter.record_success(), then
\* await enricher.enrich_async(content); enrichment is what the call will answer
FetchSucceeded ==
    \E answer \in EnrichAnswers :
        /\ pc = "fetched"
        /\ result = "ok"
        /\ rl' = RLRecordSuccess(rl)
        /\ pc' = "enrich"
        /\ calls' = <<>>
        /\ enrichment' = answer
        /\ UNCHANGED <<config, state, file, cursor, batch, bookmark, result,
                       shutdown_requested, dry_run, delivered, runs, waited, apiLogs,
                       poll, payload, exit_code>>

\* process_bookmark keeping enrichment failures out of the URL's retry record
EnrichFailed_NotCounted ==
    /\ pc = "enrich"
    /\ ~EnrichResult(enrichment).success
    /\ errs' = ErrsAfterError(errs, state, bookmark.url, "ollama", DEFAULT_MAX_ATTEMPTS)
    /\ file' = Saved(state)
    /\ pc' = "item"
    /\ bookmark' = NoBookmark /\ result' = None /\ waited' = NoWait
    /\ enrichment' = "none"
    /\ UNCHANGED <<config, state, rl, cursor, batch, shutdown_requested, dry_run, delivered,
                   runs, calls, otherLogs, poll, payload, exit_code>>

\* process_bookmark: if not enrich_result.success: record an "ollama" error, save
EnrichFailed ==
    LET out == RecordError(state, bookmark.url, bookmark.id, "ollama", DEFAULT_MAX_ATTEMPTS)
    IN /\ pc = "enrich"
       /\ ~EnrichResult(enrichment).success
       /\ state' = out.state
       /\ errs' = ErrsAfterError(errs, state, bookmark.url, "ollama", DEFAULT_MAX_ATTEMPTS)
       /\ file' = Saved(state')
       /\ pc' = "item"
       /\ bookmark' = NoBookmark /\ result' = None /\ waited' = NoWait
       /\ enrichment' = "none"
       /\ UNCHANGED <<config, rl, cursor, batch, shutdown_requested, dry_run, delivered,
                      runs, calls, otherLogs, poll, payload, exit_code>>

\* process_bookmark: need_title, need_comment
NeedTitle(b) == Absent(b.title) \/ IsPlaceholderTitle(b.title)
NeedComment(b) == Absent(b.comment)

\* process_bookmark preparing an update that always carries a new comment
PrepareUpdate_AlwaysComment(b, has_title) ==
    [raised |-> FALSE, title |-> NeedTitle(b) /\ has_title, comment |-> TRUE]

\* process_bookmark: "Prepare update".  has_title: the enrichment produced a
\* title.  The title goes into the update when it is needed and there is one, the
\* comment when it is needed; raised: evaluating the comment, content.to_markdown(),
\* raises AttributeError, as TweetContent defines no such method.
PrepareUpdate(b, has_title) ==
    [raised |-> NeedComment(b),
     title |-> NeedTitle(b) /\ has_title,
     comment |-> NeedComment(b)]

\* process_bookmark calling edit_bookmark whatever dry_run says
WritesBack_Always(dry) == TRUE

\* process_bookmark: if not dry_run
WritesBack(dry) == ~dry

\* process_bookmark: the enrichment succeeded and the update is prepared.
\* need_comment evaluates content.to_markdown(), which TweetContent does not
\* define: the AttributeError leaves process_bookmark and the for loop, and
\* main_loop's except Exception logs it and sleeps.  Otherwise --dry-run records
\* the success and saves, and a normal run awaits client.edit_bookmark.
EnrichSucceeded ==
    LET update == PrepareUpdate(bookmark, EnrichResult(enrichment).has_title)
    IN /\ pc = "enrich"
       /\ EnrichResult(enrichment).success
       /\ enrichment' = "none"
       /\ IF update.raised
          THEN /\ pc' = "sleep"
               /\ batch' = <<>> /\ bookmark' = NoBookmark /\ result' = None
               /\ waited' = NoWait
               /\ UNCHANGED <<state, file, payload, errs>>
          ELSE IF WritesBack(dry_run)
          THEN /\ pc' = "edit"
               /\ payload' = [title |-> update.title, comment |-> update.comment]
               /\ UNCHANGED <<state, file, batch, bookmark, result, waited, errs>>
          ELSE /\ state' = RecordSuccess(state, bookmark.url)
               /\ errs' = ErrsAfterSuccess(errs, bookmark.url)
               /\ file' = Saved(state')
               /\ pc' = "item"
               /\ bookmark' = NoBookmark /\ result' = None /\ waited' = NoWait
               /\ UNCHANGED <<batch, payload>>
       /\ UNCHANGED <<config, rl, cursor, shutdown_requested, dry_run, delivered, runs,
                      calls, otherLogs, poll, exit_code>>

\* process_bookmark: edit_bookmark returned: record_success, save, return True
EditSucceeded ==
    /\ pc = "edit"
    /\ state' = RecordSuccess(state, bookmark.url)
    /\ file' = Saved(state')
    /\ pc' = "item"
    /\ bookmark' = NoBookmark /\ result' = None /\ waited' = NoWait
    /\ errs' = ErrsAfterSuccess(errs, bookmark.url)
    /\ payload' = NoPayload
    /\ UNCHANGED <<config, rl, cursor, batch, shutdown_requested, dry_run, delivered, runs,
                   calls, otherLogs, poll, exit_code, enrichment>>

\* process_bookmark recording a failed edit without saving the state
EditFailed_NoSave ==
    LET out == RecordError(state, bookmark.url, bookmark.id, "network", DEFAULT_MAX_ATTEMPTS)
    IN /\ pc = "edit"
       /\ state' = out.state
       /\ pc' = "item"
       /\ bookmark' = NoBookmark /\ result' = None /\ waited' = NoWait
       /\ errs' = ErrsAfterError(errs, state, bookmark.url, "network", DEFAULT_MAX_ATTEMPTS)
       /\ payload' = NoPayload
       /\ UNCHANGED <<config, file, rl, cursor, batch, shutdown_requested, dry_run, delivered,
                      runs, calls, otherLogs, poll, exit_code, enrichment>>

\* process_bookmark advancing the rate limiter's backoff after a failed edit
EditFailed_AdvancesBackoff ==
    LET out == RecordError(state, bookmark.url, bookmark.id, "network", DEFAULT_MAX_ATTEMPTS)
    IN /\ pc = "edit"
       /\ state' = out.state
       /\ file' = Saved(state')
       /\ rl' = RLRecordError(rl, config).rl
       /\ pc' = "item"
       /\ bookmark' = NoBookmark /\ result' = None /\ waited' = NoWait
       /\ errs' = ErrsAfterError(errs, state, bookmark.url, "network", DEFAULT_MAX_ATTEMPTS)
       /\ payload' = NoPayload
       /\ UNCHANGED <<config, cursor, batch, shutdown_requested, dry_run, delivered,
                      runs, calls, otherLogs, poll, exit_code, enrichment>>

\* process_bookmark: edit_bookmark raised: record a "network" error, save
EditFailed ==
    LET out == RecordError(state, bookmark.url, bookmark.id, "network", DEFAULT_MAX_ATTEMPTS)
    IN /\ pc = "edit"
       /\ state' = out.state
       /\ file' = Saved(state')
       /\ pc' = "item"
       /\ bookmark' = NoBookmark /\ result' = None /\ waited' = NoWait
       /\ errs' = ErrsAfterError(errs, state, bookmark.url, "network", DEFAULT_MAX_ATTEMPTS)
       /\ payload' = NoPayload
       /\ UNCHANGED <<config, rl, cursor, batch, shutdown_requested, dry_run, delivered,
                      runs, calls, otherLogs, poll, exit_code, enrichment>>

\* what a process that has ended leaves behind: the state file, nothing in memory
Ended ==
    /\ state' = EmptyState /\ rl' = NewRateLimiter /\ cursor' = None
    /\ batch' = <<>> /\ bookmark' = NoBookmark /\ result' = None
    /\ calls' = <<>> /\ waited' = NoWait
    /\ shutdown_requested' = FALSE /\ dry_run' = FALSE
    /\ poll' = NoPoll /\ payload' = NoPayload /\ enrichment' = "none"

\* signal_handler whose second signal saves the state before it exits
Signal_SavesOnExit ==
    /\ Running
    /\ IF shutdown_requested
       THEN pc' = "down" /\ Ended /\ exit_code' = "1" /\ file' = Saved(state)
       ELSE /\ shutdown_requested' = TRUE
            /\ UNCHANGED <<state, rl, pc, cursor, batch, bookmark, result, dry_run,
                           calls, waited, orchLogs, file>>
    /\ UNCHANGED <<config, delivered, runs, apiLogs>>

\* signal_handler: the first SIGINT/SIGTERM sets the flag, the second one exits
\* the process at once (sys.exit(1)), without the final save
Signal ==
    /\ Running
    /\ IF shutdown_requested
       THEN pc' = "down" /\ Ended /\ exit_code' = "1"
       ELSE /\ shutdown_requested' = TRUE
            /\ UNCHANGED <<state, rl, pc, cursor, batch, bookmark, result, dry_run,
                           calls, waited, orchLogs>>
    /\ UNCHANGED <<config, file, delivered, runs, apiLogs>>

\* the process is killed or the machine stops
Crash ==
    /\ Running
    /\ pc' = "down"
    /\ Ended
    /\ exit_code' = "none"
    /\ UNCHANGED <<config, file, delivered, runs, apiLogs>>

Next ==
    \/ Start
    \/ LoopTop
    \/ FinalSave
    \/ SyncAnswered
    \/ SyncFailed
    \/ Slept
    \/ NextItem
    \/ Wait
    \/ FetchStrategy
    \/ FetchFailed
    \/ FetchSucceeded
    \/ EnrichFailed
    \/ EnrichSucceeded
    \/ EditSucceeded
    \/ EditFailed
    \/ Signal
    \/ Crash

Spec == Init /\ [][Next]_vars

\* ------------------------------------------------------------------ claims on the orchestrator
\* the URLs of a state's permanent-failure list, and those the state file holds
FailedUrls(s) == {s.failed[i].url : i \in 1..Len(s.failed)}
FileFailedUrls == IF file = NoFile THEN {} ELSE FailedUrls(file[1])
FileRetryUrls == IF file = NoFile THEN {} ELSE DOMAIN file[1].retries

\* process_bookmark is past the is_failed check for the URL: in wait, fetch,
\* enrichment or edit
InFlight(u) ==
    pc \in {"wait", "fetch", "fetched", "enrich", "edit"} /\ bookmark.url = u

\* C1: in every state the orchestrator reaches, in memory and in the state file,
\* no URL is both in the retries map and in the permanent-failure list.
C1_RetriesFailedDisjoint ==
    /\ DOMAIN state.retries \cap FailedUrls(state) = {}
    /\ FileRetryUrls \cap FileFailedUrls = {}

\* C1 witness: a URL has been promoted after three attempts, and it is in the
\* saved permanent-failure list.
C1_Witness ==
    /\ \E i \in 1..Len(state.failed) : state.failed[i].attempts = 3
    /\ FileFailedUrls # {}

\* C2: a URL in the permanent-failure list, in memory or in the state file, is
\* never in wait, fetch, enrichment or edit; the program never removes a URL from
\* the list of the state file, nor from the list in memory while the process runs.
C2_FailedNeverProcessed ==
    /\ [](\A u \in URLS : InFlight(u) => u \notin FailedUrls(state) \cup FileFailedUrls)
    /\ [][\A u \in URLS :
            /\ u \in FileFailedUrls => u \in FileFailedUrls'
            /\ (u \in FailedUrls(state) /\ pc' # "down") => u \in FailedUrls(state)']_vars

\* C2 witness: a later run is about to take up a bookmark whose URL the loaded
\* state file lists as permanently failed.
C2_Witness ==
    /\ runs = 2
    /\ pc = "item" /\ batch # <<>>
    /\ ~shutdown_requested
    /\ Head(batch).url \in FailedUrls(state) \cap FileFailedUrls

\* C9: within a run, a step that lowers the limiter's Fibonacci index is the reset
\* of a successful fetch and sets index and delay to 0; any other step leaves the
\* backoff delay no smaller; the delay never exceeds max_backoff.  The same holds
\* of the backoff stored in the state, which only record_success resets.
C9_BackoffMonotone ==
    [][(Running /\ pc' # "down") =>
        /\ rl'.fibonacci_index < rl.fibonacci_index =>
              /\ pc = "fetched" /\ result = "ok"
              /\ rl'.fibonacci_index = 0 /\ rl'.backoff_delay = 0
        /\ rl'.fibonacci_index >= rl.fibonacci_index =>
              rl'.backoff_delay >= rl.backoff_delay
        /\ rl'.backoff_delay <= 2 * config.fetch_max_backoff
        /\ state'.backoff.fibonacci_index < state.backoff.fibonacci_index =>
              /\ pc \in {"enrich", "edit"}
              /\ state'.backoff = BackoffState(0, 0)
        /\ state'.backoff.fibonacci_index >= state.backoff.fibonacci_index =>
              state'.backoff.current_delay >= state.backoff.current_delay
        /\ state'.backoff.current_delay <= 2 * config.fetch_max_backoff]_vars

\* C9 witness: a streak of three errors has raised the delay from the base delay to
\* the max_backoff ceiling.
C9_Witness ==
    /\ rl.fibonacci_index = 3
    /\ rl.backoff_delay = 2 * config.fetch_max_backoff
    /\ rl.backoff_delay > config.fetch_min_delay + config.fetch_max_delay

\* C10: fetch_tweet calls the strategies in the order fxtwitter, oembed, html; a
\* further strategy is called only after the one before failed with a kind other
\* than not_found, and fetch_tweet returns a failure of such a kind only from the
\* last strategy.
C10_StrategyOrder ==
    /\ [](/\ Len(calls) <= 3
          /\ calls = SubSeq(<<"fxtwitter", "oembed", "html">>, 1, Len(calls))
          /\ (pc = "fetch" /\ calls # <<>>) => result \in {"network", "rate_limit", "parse"}
          /\ pc = "fetched" =>
                /\ calls # <<>>
                /\ result \in {"ok", "not_found"} \/ Len(calls) = 3)
    /\ [][Len(calls') = Len(calls) + 1 =>
            (calls = <<>> \/ result \in {"network", "rate_limit", "parse"})]_vars

\* C10 witness: the first strategy failed with a network error, the second
\* succeeded, and fetch_tweet returned without calling the third.
C10_Witness ==
    /\ pc = "fetched"
    /\ calls = <<"fxtwitter", "oembed">>
    /\ result = "ok"

\* the cursor the state file holds
FileCursor == IF file = NoFile THEN None ELSE file[1].cursor

\* process_bookmark is past the is_failed check, for any bookmark
Processing == pc \in {"wait", "fetch", "fetched", "enrich", "edit"}

\* C14: a sync response that carries a cursor other than the loop's current one
\* has it in the state file when the step that receives the response is over, be
\* the filtered batch empty or not; so while a bookmark of a batch is waited for,
\* fetched, enriched or edited, the state file holds the cursor that came with
\* the batch.
C14_CursorPersistedFirst ==
    /\ []((pc = "item" \/ Processing) =>
            (poll.answered # None => FileCursor = poll.answered))
    /\ [][(pc = "sync" /\ pc' \in {"item", "loop"}
            /\ poll'.answered # None /\ poll'.answered # cursor) =>
              (FileCursor' = poll'.answered /\ cursor' = poll'.answered)]_vars

\* C14 witness: the sync call made with cursor c1 returned c2 with a batch, and c2
\* is in the state file while the first bookmark waits for the rate limiter.
C14_Witness ==
    /\ pc = "wait"
    /\ poll.asked = "c1" /\ poll.answered = "c2"
    /\ FileCursor = "c2"

\* C15: a kill loses at most the bookmark in flight.  The sync call delivers the
\* bookmarks after the cursor it is given, so a bookmark of the batch that was not
\* started (and is not permanently failed) is delivered again after a restart
\* only if the state file still holds the cursor its batch was asked with.
C15_CrashLosesOnlyInFlight ==
    [][(/\ Running /\ pc' = "down" /\ exit_code' = "none"
        /\ \E i \in 1..Len(batch) : batch[i].url \notin FailedUrls(state)) =>
          FileCursor = poll.asked]_vars

\* C16: once the shutdown flag is set, no sync call and no bookmark is started; the
\* bookmark in flight ends process_bookmark with its state saved; the for loop
\* drops the rest of the batch, the while loop ends, and main saves the state and
\* returns 0.
C16_GracefulShutdown ==
    [][shutdown_requested =>
        /\ pc' = "sync" => pc = "sync"
        /\ pc' = "wait" => pc = "wait"
        /\ (Processing /\ ~Processing' /\ pc' # "down") =>
              (pc' = "item" /\ file' = Saved(state'))
        /\ (pc = "item" /\ pc' # "down") => (pc' = "loop" /\ batch' = <<>>)
        /\ (pc = "loop" /\ pc' # "down") => pc' = "final_save"
        /\ (pc = "final_save" /\ pc' # "down") =>
              (pc' = "stopped" /\ file' = Saved(state) /\ exit_code' = "0")]_vars

\* C17: the process exits with code 1 only by a signal that arrives while the
\* shutdown flag is already set; the step ends the process wherever it is and
\* leaves the state file as it was.
C17_SecondSignalExits ==
    /\ [][(exit_code' = "1" /\ exit_code # "1") =>
            (shutdown_requested /\ Running /\ pc' = "down" /\ file' = file)]_vars
    /\ [](exit_code = "1" => pc = "down")

\* C17 witness: a process that was delivered bookmarks has exited on its second
\* signal, and there is no state file: no save was made on the way out.
C17_Witness ==
    /\ exit_code = "1" /\ pc = "down"
    /\ delivered > 0
    /\ file = NoFile

\* C18: whatever step of a bookmark fails, process_bookmark returns to the for
\* loop with the state saved and the rest of the batch still to be processed, and
\* a fetch failure has left the URL in retries or in the permanent-failure list.
C18_ItemFailureContained ==
    [][(Processing /\ ~Processing' /\ pc' # "down") =>
        /\ pc' = "item"
        /\ batch' = batch
        /\ file' = Saved(state')
        /\ (pc = "fetched" /\ result # "ok") =>
              bookmark.url \in DOMAIN state'.retries \cup FailedUrls(state')]_vars

\* C19: a failed sync call leaves the process running and leaves the cursor,
\* retries and permanent-failure list alone, in memory and in the state file; so
\* does the sleep after it; and the sync call after the sleep is made with the
\* cursor the failed one was made with.
C19_SyncFailureKeepsState ==
    /\ [][(pc = "sync" /\ pc' = "sleep") =>
            (Running' /\ poll'.failed /\ UNCHANGED <<state, file, cursor>>)]_vars
    /\ [][(pc = "sleep" /\ poll.failed /\ pc' # "down") =>
            (pc' \in {"sleep", "loop"} /\ UNCHANGED <<state, file, cursor>>)]_vars
    /\ [][(pc = "loop" /\ poll.failed /\ pc' = "sync") =>
            (poll'.asked = poll.asked /\ UNCHANGED <<state, file, cursor>>)]_vars

\* C19 witness: the sync call made with cursor c1 failed, and after the sleep the
\* next sync call is under way with c1, which is also what the state file holds.
C19_Witness ==
    /\ pc = "sync" /\ poll.failed
    /\ poll.asked = "c1" /\ cursor = "c1"
    /\ FileCursor = "c1"

StoreKinds == {"network", "not_found"}

OrchestratorIdle ==
    /\ rl = NewRateLimiter /\ pc = "api" /\ cursor = None /\ batch = <<>>
    /\ bookmark = NoBookmark /\ result = None /\ shutdown_requested = FALSE
    /\ dry_run = FALSE
    /\ delivered = 0 /\ runs = 0 /\ calls = <<>> /\ waited = NoWait /\ streak = 0
    /\ cleared = 0
    /\ FetchIdle
    /\ OrchLogsIdle
    /\ NoneSynced

StoreInit ==
    /\ errs = NoErrs
    /\ config = DefaultConfig
    /\ state \in {EmptyState, SetCursor(EmptyState, "c1")}
    /\ file = NoFile
    /\ last = NoCall
    /\ OrchestratorIdle

orchVars == <<rl, pc, cursor, batch, bookmark, result, shutdown_requested, dry_run,
              delivered, runs, calls, waited, streak, cleared, fetchVars, orchLogs,
              tmp, synced, parseVars>>

SMRecordError ==
    \E u \in URLS, k \in StoreKinds, m \in 1..MaxAttemptsArg :
        LET out == RecordError(state, u, BookmarkId(u), k, m)
        IN /\ Len(state.failed) < MaxFailed
           /\ state' = out.state
           /\ last' = Call("record_error", u, k, m, out.ret, state)
           /\ errs' = ErrsAfterError(errs, state, u, k, m)
           /\ UNCHANGED <<config, file, orchVars>>

SMRecordSuccess ==
    \E u \in URLS :
        /\ state' = RecordSuccess(state, u)
        /\ last' = Call("record_success", u, None, 0, None, state)
        /\ errs' = ErrsAfterSuccess(errs, u)
        /\ UNCHANGED <<config, file, orchVars>>

SMIncrementBackoff ==
    LET out == IncrementBackoff(state, config)
    IN /\ state.backoff.fibonacci_index < MaxStoreIndex
       /\ state' = out.state
       /\ last' = Call("increment_backoff", None, None, 0, out.ret, state)
       /\ UNCHANGED <<config, file, orchVars, errs>>

SMResetBackoff ==
    /\ state' = ResetBackoff(state)
    /\ last' = Call("reset_backoff", None, None, 0, None, state)
    /\ UNCHANGED <<config, file, orchVars, errs>>

StoreNext ==
    \/ SMRecordError
    \/ SMRecordSuccess
    \/ SMIncrementBackoff
    \/ SMResetBackoff

SpecStore == StoreInit /\ [][StoreNext]_vars

\* ------------------------------------------------------------------ claims on the store
\* the latest call was record_error(u, ..) of a kind other than not_found
LastIsCountedError ==
    last.op = "record_error" /\ last.kind # "not_found"

\* the attempts of u's retry record before the latest call (0 without a record)
PriorAttempts == GetRetryCount(last.pre, last.url)

LastFailed == state.failed[Len(state.failed)]

\* C3: for a URL with no prior retry record, the n-th consecutive record_error of a
\* kind other than not_found, all with the same max_attempts, returns True exactly
\* when n < max_attempts; at n = max_attempts it returns False and the URL is in
\* the permanent-failure list (and no longer in retries).
C3_NthErrorReturn ==
    (LastIsCountedError /\ errs[last.url].n > 0) =>
        LET n == errs[last.url].n
            m == last.max
        IN /\ n <= m
           /\ last.ret = (n < m)
           /\ n < m => GetRetryCount(state, last.url) = n
           /\ n = m => /\ last.url \in FailedUrls(state)
                        /\ last.url \notin DOMAIN state.retries

\* C3 witness: the third consecutive network error with max_attempts = 3 has
\* returned False and put the URL in the permanent-failure list.
C3_Witness ==
    /\ LastIsCountedError
    /\ errs[last.url].n = 3 /\ last.max = 3
    /\ last.ret = FALSE
    /\ last.url \in FailedUrls(state)

\* C4 (as claimed): when record_error promotes a URL because its attempts reached
\* max_attempts, the FailedBookmark's attempts equal the accumulated attempts of
\* the RetryInfo at that moment (the prior attempts plus this one).
C4_PromotionKeepsAttempts ==
    (LastIsCountedError /\ last.ret = FALSE) =>
        LastFailed.attempts = PriorAttempts + 1

\* C5: record_error with kind not_found, whatever the prior retry count, returns
\* False, appends a FailedBookmark with attempts = 1 for the URL, and leaves no
\* RetryInfo for it (the other URLs' records stay as they were).
C5_NotFoundFailsAtOnce ==
    (last.op = "record_error" /\ last.kind = "not_found") =>
        /\ last.ret = FALSE
        /\ state.failed = Append(last.pre.failed,
                                  FailedBookmark(last.url, BookmarkId(last.url), 1, "not_found"))
        /\ last.url \notin DOMAIN state.retries
        /\ \A u \in URLS \ {last.url} :
              /\ (u \in DOMAIN state.retries) = (u \in DOMAIN last.pre.retries)
              /\ u \in DOMAIN state.retries => state.retries[u] = last.pre.retries[u]

\* C5 witness: not_found recorded for a URL that had two attempts on record.
C5_Witness ==
    /\ last.op = "record_error" /\ last.kind = "not_found"
    /\ PriorAttempts = 2
    /\ LastFailed.attempts = 1

LastIsSuccessWithoutRecord ==
    last.op = "record_success" /\ last.url \notin DOMAIN last.pre.retries

\* C6 (as claimed): record_success on a URL with no retry record leaves the whole
\* state unchanged, the stored backoff included.
C6_SuccessIsNoOp ==
    LastIsSuccessWithoutRecord => state = last.pre

\* C6 (amended): record_success on a URL with no retry record leaves cursor,
\* retries and the permanent-failure list unchanged and sets the stored backoff to
\* (0, 0); a second call changes nothing more.
C6_SuccessKeepsAllButBackoff ==
    LastIsSuccessWithoutRecord =>
        /\ state.cursor = last.pre.cursor
        /\ state.retries = last.pre.retries
        /\ state.failed = last.pre.failed
        /\ state.backoff = BackoffState(0, 0)
        /\ RecordSuccess(state, last.url) = state

\* C6 witness: record_success on a URL without a record while the stored backoff
\* was non-zero and the other URL had a retry record.
C6_Witness ==
    /\ LastIsSuccessWithoutRecord
    /\ last.pre.backoff.current_delay > 0
    /\ last.pre.retries # EmptyMap

\* ------------------------------------------------------------------ SpecLimiter
\* The RateLimiter driven by direct calls, as its unit tests drive it.
storeVars == <<state, file, errs>>
loopVars == <<pc, cursor, batch, bookmark, result, shutdown_requested, dry_run,
              delivered, runs, calls, fetchVars, orchLogs, tmp, synced, parseVars>>

LimiterInit ==
    /\ config \in Configs
    /\ rl = NewRateLimiter
    /\ streak = 0 /\ cleared = 0 /\ waited = NoWait /\ last = NoCall
    /\ state = EmptyState /\ file = NoFile /\ errs = NoErrs
    /\ pc = "api" /\ cursor = None /\ batch = <<>> /\ bookmark = NoBookmark
    /\ result = None /\ shutdown_requested = FALSE /\ dry_run = FALSE
    /\ delivered = 0 /\ runs = 0 /\ calls = <<>>
    /\ FetchIdle
    /\ OrchLogsIdle
    /\ NoneSynced

\* RateLimiter.wait: sleeps for get_current_delay()
LimWait ==
    \E w \in CurrentDelays(rl, config) :
        /\ waited' = w
        /\ last' = Call("wait", None, None, 0, None, rl)
        /\ UNCHANGED <<config, rl, streak, cleared, storeVars, loopVars>>

LimRecordSuccess ==
    /\ rl' = RLRecordSuccess(rl)
    /\ streak' = 0
    /\ cleared' = rl.backoff_delay
    /\ last' = Call("rl_record_success", None, None, 0, None, rl)
    /\ UNCHANGED <<config, waited, storeVars, loopVars>>

LimRecordError ==
    LET out == RLRecordError(rl, config)
    IN /\ streak < MaxErrors
       /\ rl' = out.rl
       /\ streak' = streak + 1
       /\ last' = Call("rl_record_error", None, None, 0, out.ret, rl)
       /\ UNCHANGED <<config, waited, cleared, storeVars, loopVars>>

LimiterNext ==
    \/ LimWait
    \/ LimRecordSuccess
    \/ LimRecordError

SpecLimiter == LimiterInit /\ [][LimiterNext]_vars

\* ------------------------------------------------------------------ claims on the limiter
\* the claim's table of multipliers
C7_fib == <<1, 1, 2, 3, 5, 8, 13, 21, 34, 55, 89, 144>>

\* C7: with no record_success in between, the k-th record_error (k = 0, 1, ..)
\* returns min(base * fib[min(k, 11)], max_backoff), base = (min_delay + max_delay) / 2
\* (all in half-seconds here), and never more than max_backoff.
C7_BackoffSequence ==
    last.op = "rl_record_error" =>
        LET k == streak - 1
            base == config.fetch_min_delay + config.fetch_max_delay
            cap == 2 * config.fetch_max_backoff
        IN /\ last.ret = Min(base * C7_fib[Min(k, 11) + 1], cap)
           /\ last.ret <= cap
           /\ rl.backoff_delay = last.ret

\* C7 witness: the 13th consecutive error (k = 12, past the table) under the default
\* configuration returned base * 144.
C7_Witness ==
    /\ last.op = "rl_record_error"
    /\ streak = 13
    /\ config = DefaultConfig
    /\ last.ret = 144 * 4

\* C8: wait uses the current backoff delay whenever that delay is > 0 and otherwise
\* a value in [min_delay, max_delay]; a wait with no record_error since the latest
\* record_success uses a normal-operation delay in [min_delay, max_delay].
C8_WaitDelay ==
    last.op = "wait" =>
        LET lo == 2 * config.fetch_min_delay
            hi == 2 * config.fetch_max_delay
        IN /\ last.pre.backoff_delay > 0 =>
                  waited.source = "backoff" /\ waited.delay = last.pre.backoff_delay
           /\ last.pre.backoff_delay <= 0 =>
                  waited.source = "normal" /\ lo <= waited.delay /\ waited.delay <= hi
           /\ streak = 0 =>
                  waited.source = "normal" /\ lo <= waited.delay /\ waited.delay <= hi

\* C8 witness: a wait that follows a record_success which cleared a backoff above
\* max_delay, and uses a normal-operation delay.
C8_Witness ==
    /\ last.op = "wait"
    /\ streak = 0
    /\ cleared > 2 * config.fetch_max_delay
    /\ waited.source = "normal"

\* ------------------------------------------------------------------ SpecFetch
\* fetch_tweet called directly, once, with any URL and any answers of the three
\* endpoints.
UrlShapes == {UrlShape(a, i) : a \in BOOLEAN, i \in BOOLEAN}

FetchInit ==
    /\ target \in UrlShapes
    /\ plan \in [1..Len(STRATEGIES) -> Responses]
    /\ requests = <<>> /\ calls = <<>> /\ result = None
    /\ pc = "fetch"
    /\ config = DefaultConfig /\ state = EmptyState /\ file = NoFile
    /\ rl = NewRateLimiter /\ cursor = None /\ batch = <<>> /\ bookmark = NoBookmark
    /\ shutdown_requested = FALSE /\ dry_run = FALSE /\ delivered = 0 /\ runs = 0
    /\ waited = NoWait /\ last = NoCall /\ streak = 0 /\ errs = NoErrs /\ cleared = 0
    /\ OrchLogsIdle
    /\ NoneSynced

fetchFrame == <<config, state, file, rl, cursor, batch, bookmark, shutdown_requested,
                dry_run, delivered, runs, waited, last, streak, errs, cleared, orchLogs,
                tmp, synced, parseVars>>

\* fetch_tweet: the next strategy is called and returns
FetchTweetStep ==
    LET k == Len(calls) + 1
        out == FetchVia(STRATEGIES[k], target, plan[k])
    IN /\ pc = "fetch"
       /\ calls' = Append(calls, STRATEGIES[k])
       /\ requests' = IF out.sent THEN Append(requests, STRATEGIES[k]) ELSE requests
       /\ result' = out.outcome
       /\ pc' = IF FetchTweetNext(k, out.outcome) = 0 THEN "returned" ELSE "fetch"
       /\ UNCHANGED <<fetchFrame, target, plan>>

FetchNext == FetchTweetStep

SpecFetch == FetchInit /\ [][FetchNext]_vars

\* ------------------------------------------------------------------ claims on the fetcher
\* the outcome strategy i has for the current call
OutcomeOf(i) == FetchVia(STRATEGIES[i], target, plan[i]).outcome

\* strategy i decides the result: it succeeds, or it is one of the first two and
\* reports not_found, or it is the last
Decides(i) == OutcomeOf(i) = "ok" \/ (OutcomeOf(i) = "not_found" /\ i < 3) \/ i = 3

\* C11: for every combination of outcomes of the three strategies, fetch_tweet
\* returns the outcome of the first strategy that succeeds or, being one of the
\* first two, reports not_found; when there is none, the outcome of the third.
C11_FetchResult ==
    pc = "returned" =>
        \E i \in 1..3 :
            /\ Decides(i)
            /\ \A j \in 1..(i - 1) : ~Decides(j)
            /\ result = OutcomeOf(i)
            /\ Len(calls) = i

\* C11 witness: the three strategies failed in three different ways, none of the
\* first two with not_found, and the third one's failure is what was returned.
C11_Witness ==
    /\ pc = "returned"
    /\ OutcomeOf(1) = "rate_limit" /\ OutcomeOf(2) = "network" /\ OutcomeOf(3) = "parse"
    /\ result = "parse"

\* C12: for a URL without a numeric id after /status/, fetch_tweet returns a parse
\* failure and none of the three strategies sends a request.
C12_NoIdNoRequest ==
    (pc = "returned" /\ ~target.id) => (result = "parse" /\ requests = <<>>)

\* the classification the claim gives for a response, None where it gives none
C13_Mapping(r) ==
    IF r.kind \in {"timeout", "http_error"} THEN "network"
    ELSE IF r.status = 404 THEN "not_found"
    ELSE IF r.status \in {429, 403} THEN "rate_limit"
    ELSE IF r.status # 200 THEN "network"
    ELSE IF r.body \in {"no_text", "empty_text"} THEN "parse"
    ELSE None

\* C13: fetch_via_fxtwitter and fetch_via_oembed classify a response by the same
\* mapping: 404 not_found, 429 and 403 rate_limit, another status than 200 or a
\* transport error network, a 200 with a missing or empty text field parse; and
\* not_found comes from no other response than a 404.
C13_SameClassification ==
    LET k == Len(calls)
    IN (/\ pc \in {"fetch", "returned"} /\ k \in {1, 2}
        /\ requests # <<>> /\ requests[Len(requests)] = calls[k]) =>
          /\ C13_Mapping(plan[k]) # None => result = C13_Mapping(plan[k])
          /\ result = "not_found" => (plan[k].kind = "http" /\ plan[k].status = 404)

\* ------------------------------------------------------------------ claims on process_bookmark
\* C21 (as claimed): for an eligible bookmark with neither title nor comment, a
\* successful fetch and an enrichment that answers with a title and a summary, the
\* step after the enrichment issues the edit call with both title and comment set,
\* and when that call has returned the URL has neither a retry record nor a
\* permanent-failure record.
C21_OneEditBothFields ==
    [][/\ (/\ pc = "enrich" /\ ~dry_run /\ enrichment = "both"
           /\ bookmark.title = None /\ bookmark.comment = None
           /\ pc' # "down" /\ pc' # "enrich") =>
             (pc' = "edit" /\ payload'.title /\ payload'.comment)
       /\ (pc = "edit" /\ pc' = "item" /\ payload.title /\ payload.comment) =>
             bookmark.url \notin DOMAIN state'.retries \cup FailedUrls(state')]_vars

\* C22: under --dry-run no edit call is ever issued; the step that follows a
\* successful enrichment records the success and saves the state, as the return of
\* the edit call does in a normal run, and every step that ends a bookmark after a
\* failed fetch or a failed enrichment records the error and saves, dry run or not.
C22_DryRunSkipsOnlyEdit ==
    /\ [](dry_run => (pc # "edit" /\ payload = NoPayload))
    /\ [][/\ (dry_run /\ pc = "enrich" /\ pc' = "item" /\ EnrichResult(enrichment).success) =>
                (state' = RecordSuccess(state, bookmark.url) /\ file' = Saved(state'))
          /\ (/\ pc = "edit" /\ pc' = "item"
              /\ bookmark.url \notin DOMAIN state'.retries \cup FailedUrls(state')) =>
                (state' = RecordSuccess(state, bookmark.url) /\ file' = Saved(state'))
          /\ (pc = "fetched" /\ pc' = "item") =>
                (/\ state' = RecordError(state, bookmark.url, bookmark.id, result,
                                         DEFAULT_MAX_ATTEMPTS).state
                 /\ file' = Saved(state'))
          /\ (pc = "enrich" /\ pc' = "item" /\ ~EnrichResult(enrichment).success) =>
                (/\ state' = RecordError(state, bookmark.url, bookmark.id, "ollama",
                                         DEFAULT_MAX_ATTEMPTS).state
                 /\ file' = Saved(state'))]_vars

\* C22 witness: in the first run, a dry run, a bookmark has been waited for,
\* fetched and enriched, and its success recorded and saved: the state file exists
\* and holds no cursor, no retry record and no permanent failure.
C22_Witness ==
    /\ dry_run /\ runs = 1 /\ pc = "item"
    /\ file = Saved(EmptyState)

\* C26: the step that ends a bookmark after a failed fetch advances the rate
\* limiter (record_error) when the failure is network or rate_limit and leaves its
\* delay and index alone when it is not_found or parse; and no other step raises
\* the limiter's index.
C26_BackoffOnlyOnNetworkOrRateLimit ==
    [][/\ (pc = "fetched" /\ result # "ok" /\ pc' = "item") =>
             IF result \in {"network", "rate_limit"}
             THEN rl' = RLRecordError(rl, config).rl
             ELSE result \in {"not_found", "parse"} /\ rl' = rl
       /\ rl'.fibonacci_index > rl.fibonacci_index =>
             (pc = "fetched" /\ result \in {"network", "rate_limit"})]_vars

\* C26 witness: a rate-limited fetch has been recorded and the limiter's index is 1.
C26_Witness ==
    /\ pc = "item" /\ rl.fibonacci_index = 1 /\ rl.backoff_delay > 0
    /\ \E u \in DOMAIN state.retries : state.retries[u].error_type = "rate_limit"

\* C27 (as claimed): a first fetch failure of a URL, of any kind, leaves the URL
\* in retries with attempts 1, and a first enrichment failure does the same.
C27_AnyFailureCounts ==
    [][(/\ pc \in {"fetched", "enrich"} /\ pc' = "item"
        /\ (pc = "fetched" => result # "ok")
        /\ (pc = "enrich" => ~EnrichResult(enrichment).success)
        /\ bookmark.url \notin DOMAIN state.retries) =>
          (/\ bookmark.url \in DOMAIN state'.retries
           /\ state'.retries[bookmark.url].attempts = 1)]_vars

\* C27 (amended): failures other than a not_found fetch failure are counted in one
\* counter per URL, be they fetch, enrichment or edit failures: after one or two of
\* them since the URL last had no retry record the URL is in retries with that
\* number of attempts, and after three it is in the permanent-failure list and no
\* longer in retries.
C27_SharedCounterExceptNotFound ==
    Running =>
        \A u \in URLS :
            /\ errs[u].n \in {1, 2} =>
                  /\ u \in DOMAIN state.retries
                  /\ state.retries[u].attempts = errs[u].n
                  /\ u \notin FailedUrls(state)
            /\ errs[u].n >= 3 =>
                  /\ errs[u].n = 3
                  /\ u \in FailedUrls(state)
                  /\ u \notin DOMAIN state.retries

\* C27 witness: the third failure in a row of u1 was an enrichment failure and has
\* put it in the permanent-failure list.
C27_Witness ==
    /\ Running /\ errs["u1"].n = 3
    /\ \E i \in 1..Len(state.failed) :
          state.failed[i].url = "u1" /\ state.failed[i].last_error = "ollama"

\* the error kind the state holds for a URL, in retries or in the failure list
C28_RecordedKind(s, u) ==
    IF u \in DOMAIN s.retries THEN s.retries[u].error_type
    ELSE IF \E i \in 1..Len(s.failed) : s.failed[i].url = u
    THEN LET i == CHOOSE i \in 1..Len(s.failed) :
                    s.failed[i].url = u /\ \A j \in i + 1..Len(s.failed) : s.failed[j].url # u
         IN s.failed[i].last_error
    ELSE None

\* C28 (as claimed): when the enrichment call has timed out, the step that ends the
\* bookmark records a network error for the URL and advances the rate limiter's
\* backoff, as the step after a fetch that failed with a network error does.
C28_TimeoutIsNetworkFailure ==
    [][(/\ pc' = "item"
        /\ \/ pc = "enrich" /\ enrichment = "timeout"
           \/ pc = "fetched" /\ result = "network") =>
          (/\ C28_RecordedKind(state', bookmark.url) = "network"
           /\ rl' = RLRecordError(rl, config).rl)]_vars

\* C30: a bookmark is taken up only by the for loop, when no other is in flight,
\* and it is the first of what is left of the batch; the step that ends a bookmark
\* has saved the state and leaves none in flight; and a sync call is issued only
\* from the top of the while loop, with no bookmark in flight.
C30_InOrderOneAtATime ==
    /\ [](pc \in {"sync", "item", "loop", "sleep"} => bookmark = NoBookmark)
    /\ [][/\ (bookmark' # bookmark /\ bookmark' # NoBookmark) =>
                (/\ pc = "item" /\ pc' = "wait" /\ bookmark = NoBookmark
                 /\ bookmark' = Head(batch) /\ batch' = Tail(batch))
          /\ (pc' = "wait" /\ pc # "wait") => (pc = "item" /\ bookmark' = Head(batch))
          /\ (Processing /\ pc' = "item") =>
                (file' = Saved(state') /\ bookmark' = NoBookmark /\ batch' = batch)
          /\ (pc' = "sync" /\ pc # "sync") => (pc = "loop" /\ bookmark = NoBookmark)]_vars

\* C30 witness: in the first run two bookmarks were delivered; u1's has ended with
\* its retry record saved, and u2's, which came after it, is at the rate limiter's
\* wait.
C30_Witness ==
    /\ runs = 1 /\ delivered = 2
    /\ pc = "wait" /\ bookmark.id = 102
    /\ "u1" \in DOMAIN state.retries /\ file = Saved(state)

\* ------------------------------------------------------------------ state.py: save and load
\* C25: whatever state the store has reached, the document save writes, loaded
\* by a fresh StateManager, gives the same cursor, the same retry records
\* (attempts, error kind and bookmark id per URL), the same permanent failures in
\* the same order, and the same backoff.
C25_SaveLoadRoundTrip ==
    LET loaded == Load(EmptyState, Saved(state))
    IN /\ loaded.cursor = state.cursor
       /\ loaded.retries = state.retries
       /\ loaded.failed = state.failed
       /\ loaded.backoff = state.backoff

\* C25 witness: a state with a cursor, a retry record, two different permanent
\* failures and a backoff that is not zero.
C25_Witness ==
    /\ state.cursor = "c1"
    /\ DOMAIN state.retries # {}
    /\ Len(state.failed) = 2 /\ state.failed[1] # state.failed[2]
    /\ state.backoff.fibonacci_index > 0 /\ state.backoff.current_delay > 0

\* StateManager.save step by step.  The temporary file holds what json.dump has
\* written of the document so far: "nothing", "part" or "all".
TempFile(written, data) == <<[written |-> written, data |-> data]>>

saveFrame == <<config, rl, cursor, batch, bookmark, result, shutdown_requested, dry_run,
               delivered, calls, waited, last, streak, errs, cleared, fetchVars,
               poll, payload, exit_code, enrichment, synced, parseVars>>

SaveInit ==
    /\ errs = NoErrs
    /\ config = DefaultConfig
    /\ state = EmptyState
    /\ file = NoFile
    /\ last = NoCall
    /\ OrchestratorIdle

\* record_error, called between two saves
SaveRecordError ==
    \E u \in URLS, k \in StoreKinds :
        /\ pc = "api"
        /\ Len(state.failed) < MaxSavedFailed
        /\ state' = RecordError(state, u, BookmarkId(u), k, DEFAULT_MAX_ATTEMPTS).state
        /\ UNCHANGED <<file, tmp, pc, runs, saveFrame>>

\* set_cursor: assigns the cursor and calls save
SaveSetCursor ==
    \E c \in Cursors :
        /\ pc = "api"
        /\ state' = SetCursor(state, c)
        /\ pc' = "save"
        /\ UNCHANGED <<file, tmp, runs, saveFrame>>

\* save that opens the state file itself for writing, which truncates it
SaveOpen_InPlace ==
    /\ pc \in {"api", "save"}
    /\ tmp' = TempFile("nothing", SaveDocument(state))
    /\ file' = NotJson
    /\ pc' = "dump"
    /\ UNCHANGED <<state, runs, saveFrame>>

\* save: the document is built and tempfile.NamedTemporaryFile creates the
\* temporary file in the state file's directory
SaveOpen ==
    /\ pc \in {"api", "save"}
    /\ tmp' = TempFile("nothing", SaveDocument(state))
    /\ pc' = "dump"
    /\ UNCHANGED <<state, file, runs, saveFrame>>

\* save: json.dump writes the document, and leaving the with block closes the file
SaveDump ==
    /\ pc = "dump"
    /\ tmp' = TempFile(IF tmp[1].written = "nothing" THEN "part" ELSE "all", tmp[1].data)
    /\ pc' = IF tmp[1].written = "nothing" THEN "dump" ELSE "rename"
    /\ UNCHANGED <<state, file, runs, saveFrame>>

\* save: temp_path.rename(self.state_file)
SaveRename ==
    /\ pc = "rename"
    /\ file' = FileWith(tmp[1].data)
    /\ tmp' = NoTemp
    /\ pc' = "api"
    /\ UNCHANGED <<state, runs, saveFrame>>

\* the process is killed, wherever it is; the temporary file stays as it is, and
\* the next process loads the state file (runs counts the processes killed)
SaveKilled ==
    /\ runs < MaxRuns
    /\ runs' = runs + 1
    /\ state' = LoadAttempt(EmptyState, file).state
    /\ pc' = "api"
    /\ UNCHANGED <<file, tmp, saveFrame>>

SaveNext ==
    \/ SaveRecordError
    \/ SaveSetCursor
    \/ SaveOpen
    \/ SaveDump
    \/ SaveRename
    \/ SaveKilled

SpecSave == SaveInit /\ [][SaveNext]_vars

\* C24: the state file never holds an unfinished document (one that is not valid
\* JSON, or lacks a key), and it changes only
\* by the rename of a completely written temporary file that holds the state
\* being saved; so at every point of a save, and after a kill at any point of it,
\* the path holds what it held before the save or the complete new state.  (Before
\* the first save there is no file at the path.)
C24_SaveAtomic ==
    [][/\ ~IsCorrupt(file')
       /\ file' # file =>
            /\ pc = "rename"
            /\ tmp[1].written = "all"
            /\ file' = FileWith(tmp[1].data)
            /\ file' = Saved(state)]_vars

\* C24 witness: the process was killed between the write of the temporary file
\* and the rename: the complete temporary file is left over and the state file
\* holds the state saved before, which the next process has loaded.
C24_Witness ==
    /\ pc = "api"
    /\ tmp # NoTemp /\ tmp[1].written = "all"
    /\ file # NoFile /\ file # FileWith(tmp[1].data)
    /\ state = Load(EmptyState, file)

\* ------------------------------------------------------------------ xfix.py: a corrupt state file
\* the orchestrator started with a state file that is not a saved document
CorruptInit ==
    /\ config = OrchConfig
    /\ state = EmptyState
    /\ file \in CorruptFiles
    /\ rl = NewRateLimiter
    /\ pc = "down"
    /\ cursor = None
    /\ batch = <<>>
    /\ bookmark = NoBookmark
    /\ result = None
    /\ shutdown_requested = FALSE
    /\ dry_run = FALSE
    /\ delivered = 0
    /\ runs = 0
    /\ calls = <<>>
    /\ waited = NoWait
    /\ last = NoCall /\ streak = 0 /\ errs = NoErrs /\ cleared = 0
    /\ FetchIdle
    /\ OrchLogsIdle
    /\ NoneSynced

SpecCorrupt == CorruptInit /\ [][Next]_vars

\* C23 (as claimed): with a state file that is not valid structured data, the
\* process never gets past startup (it is never in main_loop and never ends with
\* the final save) and the file stays as it is.
C23_CorruptStateStopsStartup ==
    /\ pc = "down"
    /\ IsCorrupt(file)

\* ------------------------------------------------------------------ api_client.py: the filter
\* the bookmarks a sync response can carry: a post URL or another one, any of the
\* titles, and a comment that is missing, empty or present
FilterItems ==
    {Bookmark(105, u, t, c) : u \in {"u1", OtherUrl}, t \in Titles, c \in {None, "", "present"}}

FilterInit ==
    /\ config = OrchConfig
    /\ state = EmptyState
    /\ file = NoFile
    /\ rl = NewRateLimiter
    /\ pc = "sync"
    /\ cursor = None
    /\ batch = <<>>
    /\ bookmark = NoBookmark
    /\ result = None
    /\ shutdown_requested = FALSE
    /\ dry_run = FALSE
    /\ delivered = 0
    /\ runs = 0
    /\ calls = <<>>
    /\ waited = NoWait
    /\ last = NoCall /\ streak = 0 /\ errs = NoErrs /\ cleared = 0
    /\ FetchIdle
    /\ OrchLogsIdle
    /\ synced \in UNION {[1..n -> FilterItems] : n \in 0..MaxSynced}

\* get_x_bookmarks_needing_enrichment: the bookmarks of the response that are
\* posts and need enrichment, in the order of the response
GetXBookmarksNeedingEnrichment ==
    /\ pc = "sync"
    /\ batch' = Matching(synced)
    /\ pc' = "item"
    /\ UNCHANGED <<config, state, file, rl, cursor, bookmark, result, shutdown_requested,
                   dry_run, delivered, runs, calls, waited, apiLogs, orchLogs>>

FilterNext == GetXBookmarksNeedingEnrichment

SpecFilter == FilterInit /\ [][FilterNext]_vars

\* a placeholder as the claim lists them: at most 5 characters, a bare relative
\* time, a bare short date, a full timestamp, or a URL
C29_Placeholder(title) ==
    \/ TitleLength(title) <= 5
    \/ title \in {"18h", "123456h", "Jan 22", "3:01 PM . Jan 23, 2026",
                  "https://x.com/u/status/1"}

\* C29 (as claimed): the bookmarks of a sync response handed to the for loop are
\* those with a post URL and a title that is absent or a placeholder or a comment
\* that is absent (None or empty), and no other.
C29_OnlyPlaceholdersProcessed ==
    pc = "item" =>
        batch = SelectSeq(synced,
                    LAMBDA b : /\ IsXUrl(b.url)
                               /\ \/ b.title = None
                                  \/ C29_Placeholder(b.title)
                                  \/ Absent(b.comment))

\* ------------------------------------------------------------------ claims on the backoff and the retry records
\* C31: the step after a successful fetch leaves the rate limiter at delay 0 and
\* index 0; the limiter stays there through the enrichment and the edit call and
\* when the bookmark ends, whatever its outcome, and up to the next bookmark's
\* wait; and a wait with the limiter at zero sleeps a normal-operation delay.
C31_SuccessfulFetchResetsBackoff ==
    /\ [](pc \in {"enrich", "edit"} => rl = NewRateLimiter)
    /\ [][/\ (pc = "fetched" /\ result = "ok" /\ pc' = "enrich") => rl' = NewRateLimiter
          /\ (pc \in {"enrich", "edit"} /\ pc' \in {"item", "sleep"}) => rl' = NewRateLimiter
          /\ (pc \in {"item", "sleep", "loop", "sync"} /\ pc' # "down") => rl' = rl
          /\ (pc = "wait" /\ pc' = "fetch" /\ rl = NewRateLimiter) =>
                (waited'.source = "normal" /\ waited'.delay \in NormalDelays(config))]_vars

\* C31 witness: u1's second failure was an enrichment failure, so its fetch had
\* succeeded; the next bookmark has been waited for with a normal delay.
C31_Witness ==
    /\ pc = "fetch" /\ waited.source = "normal" /\ rl = NewRateLimiter
    /\ "u1" \in DOMAIN state.retries
    /\ state.retries["u1"].error_type = "ollama" /\ state.retries["u1"].attempts = 2

\* the retries and the permanent failures the state file holds
FileRetries == IF file = NoFile THEN EmptyMap ELSE file[1].retries
FileFailed == IF file = NoFile THEN <<>> ELSE file[1].failed

\* C34: the step that ends process_bookmark after a failed fetch, a failed
\* enrichment, a failed edit or a success has written the state file, and
\* whenever the for loop is between two bookmarks the retries and the permanent
\* failures in the state file are those in memory.
C34_SavedAfterEachItem ==
    /\ [](pc = "item" =>
            (FileRetries = SaveDocument(state).retries /\ FileFailed = SaveDocument(state).failed))
    /\ [][(Processing /\ pc' = "item") => file' = Saved(state')]_vars

\* C34 witness: between two bookmarks, with a retry record and a permanent failure
\* in memory and in the file.
C34_Witness ==
    /\ pc = "item" /\ batch # <<>>
    /\ DOMAIN state.retries # {} /\ state.failed # <<>>
    /\ file = Saved(state)

\* C35 (as claimed): between two bookmarks the backoff in the state, and in the
\* state file, is the backoff the rate limiter applies to the next wait.
C35_StoredBackoffIsLimiterBackoff ==
    pc = "item" =>
        /\ state.backoff = BackoffState(rl.backoff_delay, rl.fibonacci_index)
        /\ file # NoFile => file[1].backoff = SaveDocument(state).backoff

\* C36: in every state the orchestrator reaches, every retry record has at least
\* 1 and fewer than 3 attempts, in memory and in the state file.
C36_AttemptsBelowCap ==
    /\ \A u \in DOMAIN state.retries :
          state.retries[u].attempts >= 1 /\ state.retries[u].attempts < DEFAULT_MAX_ATTEMPTS
    /\ \A u \in DOMAIN FileRetries :
          FileRetries[u].attempts >= 1 /\ FileRetries[u].attempts < DEFAULT_MAX_ATTEMPTS

\* C36 witness: a URL has failed twice and a third bookmark of it is in flight.
C36_Witness ==
    /\ pc = "fetched" /\ result = "network"
    /\ bookmark.url \in DOMAIN state.retries
    /\ state.retries[bookmark.url].attempts = 2

\* C38 (as claimed): an edit call carries a title or a comment, and the success
\* recorded when it returns is that of a call that wrote a field.
C38_NoEmptyEdit ==
    /\ [](pc = "edit" => (payload.title \/ payload.comment))
    /\ [][(pc = "edit" /\ pc' = "item" /\ state' = RecordSuccess(state, bookmark.url)
           /\ bookmark.url \notin FailedUrls(state')) =>
             (payload.title \/ payload.comment)]_vars

\* C39: the step after a failed edit call records one network error for the URL
\* (record_error with max_attempts 3), saves, leaves the rate limiter as it is and
\* goes on with the rest of the batch; at the URL's third failure in a row it is
\* in the permanent-failure list.
C39_EditFailureCounted ==
    [][(pc = "edit" /\ pc' = "item" /\ state' # RecordSuccess(state, bookmark.url)) =>
        /\ state' = RecordError(state, bookmark.url, bookmark.id, "network",
                                DEFAULT_MAX_ATTEMPTS).state
        /\ GetRetryCount(state, bookmark.url) < 2 =>
              (/\ bookmark.url \in DOMAIN state'.retries
               /\ state'.retries[bookmark.url].attempts = GetRetryCount(state, bookmark.url) + 1
               /\ state'.retries[bookmark.url].error_type = "network")
        /\ GetRetryCount(state, bookmark.url) = 2 =>
              (bookmark.url \in FailedUrls(state') /\ bookmark.url \notin DOMAIN state'.retries)
        /\ file' = Saved(state')
        /\ rl' = rl
        /\ batch' = batch]_vars

\* C39 witness: in one run u2's bookmark was delivered three times and its third
\* failure, a failed edit (the limiter is at zero, so its fetch had succeeded),
\* has put it in the permanent-failure list.
C39_Witness ==
    /\ runs = 1 /\ delivered = 3 /\ pc = "item"
    /\ rl = NewRateLimiter
    /\ errs["u2"].n = 3
    /\ \E i \in 1..Len(state.failed) :
          state.failed[i].url = "u2" /\ state.failed[i].last_error = "network"

\* ------------------------------------------------------------------ the two backoffs side by side
\* a StateManager and a RateLimiter built from the same configuration, as main
\* and main_loop build them, and given the same calls
backoffFrame == <<config, file, errs, waited, loopVars>>

\* increment_backoff and record_error; last.ret holds what the two returned
BothRecordError ==
    LET store == IncrementBackoff(state, config)
        limiter == RLRecordError(rl, config)
    IN /\ streak < MaxErrors
       /\ state' = store.state
       /\ rl' = limiter.rl
       /\ streak' = streak + 1
       /\ last' = Call("both_record_error", None, None, 0, <<store.ret, limiter.ret>>, rl)
       /\ UNCHANGED <<cleared, backoffFrame>>

\* reset_backoff and record_success
BothRecordSuccess ==
    /\ state' = ResetBackoff(state)
    /\ rl' = RLRecordSuccess(rl)
    /\ streak' = 0
    /\ cleared' = rl.backoff_delay
    /\ last' = Call("both_record_success", None, None, 0, None, rl)
    /\ UNCHANGED backoffFrame

BackoffNext ==
    \/ BothRecordError
    \/ BothRecordSuccess

SpecBackoff == LimiterInit /\ [][BackoffNext]_vars

\* C37: given the same configuration and the same calls, increment_backoff and
\* record_error return the same delay at every error, and after every call the
\* state's backoff and the rate limiter hold the same delay and the same index,
\* also after more errors in a row than the table has entries.
C37_SameBackoff ==
    /\ state.backoff.current_delay = rl.backoff_delay
    /\ state.backoff.fibonacci_index = rl.fibonacci_index
    /\ last.op = "both_record_error" => last.ret[1] = last.ret[2]

\* C37 witness: the thirteenth error in a row, under a ceiling the twelfth
\* multiplier does not reach.
C37_Witness ==
    /\ last.op = "both_record_error"
    /\ streak = 13 /\ rl.fibonacci_index = 13
    /\ rl.backoff_delay < MaxBackoff(config)

\* ------------------------------------------------------------------ enricher.py: parse_response
\* A string is a sequence of runs: n times the character c.  " " is a space, "A"
\* another character that is not a newline, "L" a character of the SUMMARY: label.
Run(c, n) == [c |-> c, n |-> n]
Text(lead, body, trail) ==
    (IF lead > 0 THEN <<Run(" ", lead)>> ELSE <<>>)
    \o (IF body > 0 THEN <<Run("A", body)>> ELSE <<>>)
    \o (IF trail > 0 THEN <<Run(" ", trail)>> ELSE <<>>)

\* len(s)
RECURSIVE StrLen(_)
StrLen(s) == IF s = <<>> THEN 0 ELSE Head(s).n + StrLen(Tail(s))

\* s[:k]
RECURSIVE StrTake(_, _)
StrTake(s, k) ==
    IF s = <<>> \/ k = 0 THEN <<>>
    ELSE IF Head(s).n <= k THEN <<Head(s)>> \o StrTake(Tail(s), k - Head(s).n)
    ELSE <<Run(Head(s).c, k)>>

\* s.strip()
RECURSIVE StrLStrip(_)
StrLStrip(s) == IF s # <<>> /\ Head(s).c = " " THEN StrLStrip(Tail(s)) ELSE s
RECURSIVE StrRStrip(_)
StrRStrip(s) ==
    IF s # <<>> /\ s[Len(s)].c = " " THEN StrRStrip(SubSeq(s, 1, Len(s) - 1)) ELSE s
StrStrip(s) == StrRStrip(StrLStrip(s))

\* The responses of the model: a line "TITLE:" and what follows the label on it,
\* or no such line, then "SUMMARY:" and what follows it, or no such label.
TitleLines ==
    {Text(lead, body, trail) : lead \in {0, 2}, body \in {0, 1, 97, 100, 101, 150}, trail \in {0, 1}}
    \cup {<<Run("A", 90), Run(" ", 1), Run("A", 20)>>}
SummaryTexts == {Text(lead, body, 0) : lead \in {0, 1}, body \in {0, 3, 200}}
ResponseTexts ==
    [title : {Found(t) : t \in TitleLines} \cup {Missing},
     summary : {Found(t) : t \in SummaryTexts} \cup {Missing}]

\* what TITLE_PATTERN's group captures, Missing without a match: \s* takes the
\* spaces after the label, and the newline too when nothing else is on the
\* line, so that the group is then the line below (the 8 characters of the
\* SUMMARY label and what follows it); without a line below, (.+?) takes the
\* last space of a line of spaces, and fails on an empty line
TitleGroup(r) ==
    IF ~r.title.present THEN Missing
    ELSE IF StrLStrip(r.title.text) # <<>> THEN Found(StrLStrip(r.title.text))
    ELSE IF r.summary.present THEN Found(<<Run("L", 8)>> \o r.summary.text)
    ELSE IF r.title.text # <<>> THEN Found(<<Run(" ", 1)>>)
    ELSE Missing

\* what SUMMARY_PATTERN's group captures, Missing without a match
SummaryGroup(r) ==
    IF ~r.summary.present THEN Missing
    ELSE IF StrLStrip(r.summary.text) # <<>> THEN Found(StrLStrip(r.summary.text))
    ELSE IF r.summary.text # <<>> THEN Found(<<Run(" ", 1)>>)
    ELSE Missing

\* parse_response cutting a long title at 100 characters before the ellipsis
ParseResponse_CutsAt100(r) ==
    [title |-> IF ~TitleGroup(r).present THEN Missing
               ELSE IF StrLen(StrStrip(TitleGroup(r).text)) > 100
               THEN Found(StrTake(StrStrip(TitleGroup(r).text), 100) \o <<Run(".", 3)>>)
               ELSE Found(StrStrip(TitleGroup(r).text)),
     summary |-> IF ~SummaryGroup(r).present THEN Missing
                 ELSE Found(StrStrip(SummaryGroup(r).text))]

\* parse_response
ParseResponse(r) ==
    [title |-> IF ~TitleGroup(r).present THEN Missing
               ELSE IF StrLen(StrStrip(TitleGroup(r).text)) > 100
               THEN Found(StrTake(StrStrip(TitleGroup(r).text), 97) \o <<Run(".", 3)>>)
               ELSE Found(StrStrip(TitleGroup(r).text)),
     summary |-> IF ~SummaryGroup(r).present THEN Missing
                 ELSE Found(StrStrip(SummaryGroup(r).text))]

ParseInit ==
    /\ config = OrchConfig
    /\ state = EmptyState
    /\ file = NoFile
    /\ rl = NewRateLimiter
    /\ pc = "parse"
    /\ cursor = None
    /\ batch = <<>>
    /\ bookmark = NoBookmark
    /\ result = None
    /\ shutdown_requested = FALSE
    /\ dry_run = FALSE
    /\ delivered = 0
    /\ runs = 0
    /\ calls = <<>>
    /\ waited = NoWait
    /\ last = NoCall /\ streak = 0 /\ errs = NoErrs /\ cleared = 0
    /\ FetchIdle
    /\ NoneSynced
    /\ poll = NoPoll /\ payload = NoPayload /\ exit_code = "none" /\ enrichment = "none"
    /\ tmp = NoTemp
    /\ response_text \in ResponseTexts
    /\ parsed = NoParse

\* parse_response(response_text) returns
ParseResponseCall ==
    /\ pc = "parse"
    /\ parsed' = ParseResponse(response_text)
    /\ pc' = "parsed"
    /\ UNCHANGED <<config, state, file, rl, cursor, batch, bookmark, result,
                   shutdown_requested, dry_run, delivered, runs, calls, waited,
                   last, streak, errs, cleared, fetchVars, orchLogs, tmp, synced,
                   response_text>>

ParseNext == ParseResponseCall

SpecParse == ParseInit /\ [][ParseNext]_vars

\* C32: the title parse_response returns has at most 100 characters: when what
\* follows the TITLE label, trimmed, is longer than 100 characters it is its first
\* 97 characters and "...", otherwise it is that text trimmed; without a TITLE
\* label the title is None and without a SUMMARY label the summary is None.
C32_TitleAtMost100 ==
    pc = "parsed" =>
        /\ parsed.title.present => StrLen(parsed.title.text) <= 100
        /\ (response_text.title.present /\ StrStrip(response_text.title.text) # <<>>) =>
              IF StrLen(StrStrip(response_text.title.text)) > 100
              THEN /\ parsed.title =
                        Found(StrTake(StrStrip(response_text.title.text), 97) \o <<Run(".", 3)>>)
                   /\ StrLen(parsed.title.text) = 100
              ELSE parsed.title = Found(StrStrip(response_text.title.text))
        /\ ~response_text.title.present => parsed.title = Missing
        /\ ~response_text.summary.present => parsed.summary = Missing

\* C32 witness: a title of 150 characters between spaces has come back as 97
\* characters and an ellipsis, with the summary beside it.
C32_Witness ==
    /\ pc = "parsed"
    /\ response_text.title = Found(Text(2, 150, 1))
    /\ parsed.title = Found(<<Run("A", 97), Run(".", 3)>>)
    /\ parsed.summary = Found(Text(0, 200, 0))

\* ------------------------------------------------------------------ xfix.py: main_loop under fair scheduling
\* The steps the event loop takes by itself once the awaited call has returned:
\* every step of main and main_loop, none of the environment (a process start, a
\* signal, a kill).
Returns ==
    \/ LoopTop
    \/ FinalSave
    \/ SyncAnswered
    \/ SyncFailed
    \/ Slept
    \/ NextItem
    \/ Wait
    \/ FetchStrategy
    \/ FetchFailed
    \/ FetchSucceeded
    \/ EnrichFailed
    \/ EnrichSucceeded
    \/ EditSucceeded
    \/ EditFailed

\* The machine after a first run that was killed in the long poll, having been
\* given one bookmark that is not an X URL and no cursor: nothing was saved,
\* and one process start is left.
LiveInit ==
    /\ config = OrchConfig
    /\ state = EmptyState
    /\ file = NoFile
    /\ rl = NewRateLimiter
    /\ pc = "down"
    /\ cursor = None
    /\ batch = <<>>
    /\ bookmark = NoBookmark
    /\ result = None
    /\ shutdown_requested = FALSE
    /\ dry_run = FALSE
    /\ delivered = 1
    /\ runs = MaxRuns - 1
    /\ calls = <<>>
    /\ waited = NoWait
    /\ last = NoCall /\ streak = 0 /\ errs = NoErrs /\ cleared = 0
    /\ FetchIdle
    /\ OrchLogsIdle
    /\ NoneSynced

\* the orchestrator when every sync, fetch, enrichment and edit call and every
\* sleep eventually returns
SpecLive == LiveInit /\ [][Next]_vars /\ WF_vars(Returns)

\* C33: an item left with a retry record while the loop runs is attempted again
\* (or the run ends): process_bookmark is entered for its URL once more.
C33_RetryRecordAttemptedAgain ==
    \A u \in URLS :
        (pc = "item" /\ u \in DOMAIN state.retries) ~> (InFlight(u) \/ ~Running)

\* C40: after a shutdown signal the orchestrator eventually leaves the main loop
\* and stops: the final save is done and main returns 0, unless a second signal
\* or a kill ends the process first.
C40_ShutdownStops ==
    shutdown_requested ~> (pc = "stopped" \/ pc = "down")

\* C40 witness: a run that recorded a failed item was signalled and has ended
\* with the final save.
C40_Witness ==
    /\ pc = "stopped"
    /\ shutdown_requested
    /\ exit_code = "0"
    /\ state.retries # <<>>

====
